---- MODULE Spec2Model ----
(***************************************************************************)
(* Orchestration / follow-up decision engine of the Jio chatbot            *)
(* (src/backend/orchestrator.py): FollowUpManager, the complexity          *)
(* classifier, the strategy selector, the tool aggregator, the response    *)
(* cache and JioOrchestrator.orchestrate / orchestrate_with_followup.      *)
(*                                                                         *)
(* Python strings are modelled as sequences of characters.  Every          *)
(* character is a one-element atom; the non-ASCII characters that occur in *)
(* the source are written "a^" (U+00E2), "q," (U+201A), "^1" (U+00B9) and  *)
(* "Rs" (U+20B9, the rupee sign).  orchestrator.py spells the rupee sign   *)
(* as the three characters U+00E2 U+201A U+00B9 in all of its literals.    *)
(***************************************************************************)
EXTENDS Integers, Sequences, FiniteSets, TLC

(***************************************************************************)
(* Python str primitives                                                   *)
(***************************************************************************)
Whitespace == {" ", "TAB", "NL"}

Digits == {"0", "1", "2", "3", "4", "5", "6", "7", "8", "9"}

UpperCase ==
  <<"A","B","C","D","E","F","G","H","I","J","K","L","M",
    "N","O","P","Q","R","S","T","U","V","W","X","Y","Z">>

LowerCase ==
  <<"a","b","c","d","e","f","g","h","i","j","k","l","m",
    "n","o","p","q","r","s","t","u","v","w","x","y","z">>

SetMin(S) == CHOOSE x \in S : \A y \in S : x <= y

SetMax(S) == CHOOSE x \in S : \A y \in S : x >= y

\* str.lower() on one character
lower_char(c) ==
  IF \E i \in 1..26 : UpperCase[i] = c
  THEN LowerCase[CHOOSE i \in 1..26 : UpperCase[i] = c]
  ELSE c

\* str.lower()
lower(s) ==
  LET f[k \in 0..Len(s)] ==
        IF k = 0 THEN << >> ELSE Append(f[k - 1], lower_char(s[k]))
  IN  f[Len(s)]

\* str.strip(): leading and trailing whitespace removed
strip(s) ==
  LET keep == {i \in 1..Len(s) : s[i] \notin Whitespace}
  IN  IF keep = {} THEN << >> ELSE SubSeq(s, SetMin(keep), SetMax(keep))

\* len(str.split()): the number of maximal runs of non-whitespace
word_count(s) ==
  Cardinality({i \in 1..Len(s) :
                 /\ s[i] \notin Whitespace
                 /\ (i = 1 \/ s[i-1] \in Whitespace)})

\* sub occurs in s at position i
occurs_at(s, sub, i) ==
  /\ i >= 1
  /\ i + Len(sub) - 1 <= Len(s)
  /\ \A j \in 1..Len(sub) : s[i + j - 1] = sub[j]

\* Python "sub in s"
contains(s, sub) == \E i \in 1..(Len(s) - Len(sub) + 1) : occurs_at(s, sub, i)

\* "w in s.split()" for a word w without whitespace
word_in_split(s, w) ==
  \E i \in 1..(Len(s) - Len(w) + 1) :
     /\ occurs_at(s, w, i)
     /\ (i = 1 \/ s[i - 1] \in Whitespace)
     /\ (i + Len(w) - 1 = Len(s) \/ s[i + Len(w)] \in Whitespace)

\* any(k in s for k in keywords)
any_in(keywords, s) == \E k \in 1..Len(keywords) : contains(s, keywords[k])

\* any(char.isdigit() for char in s); U+00B9 is a digit for str.isdigit()
any_digit(s) == \E i \in 1..Len(s) : s[i] \in Digits \cup {"^1"}

\* length of the run of \d characters of s that starts at position i
digit_run(s, i) ==
  IF i < 1 \/ i > Len(s) THEN 0
  ELSE SetMin({j \in i..(Len(s) + 1) : j = Len(s) + 1 \/ s[j] \notin Digits}) - i

\* re.findall(r'\d{3,4}', s): leftmost, greedy, non-overlapping
findall_digits(s) ==
  LET from[i \in 1..(Len(s) + 1)] ==
        IF i > Len(s) THEN << >>
        ELSE IF digit_run(s, i) >= 4
             THEN <<SubSeq(s, i, i + 3)>> \o from[i + 4]
        ELSE IF digit_run(s, i) = 3
             THEN <<SubSeq(s, i, i + 2)>> \o from[i + 3]
        ELSE from[i + 1]
  IN  from[1]

\* The pattern r'a^q,^1?(\d{3,4})' as orchestrator.py writes it: the two
\* characters U+00E2 U+201A, an optional U+00B9, then 3-4 digits (group 1).
\* Position of group 1 when the pattern matches at i, 0 when it does not.
rupee_group_at(s, i) ==
  IF i + 1 <= Len(s) /\ s[i] = "a^" /\ s[i + 1] = "q,"
  THEN LET j == IF i + 2 <= Len(s) /\ s[i + 2] = "^1" THEN i + 3 ELSE i + 2
       IN  IF digit_run(s, j) >= 3 THEN j ELSE 0
  ELSE 0

\* re.findall(r'a^q,^1?(\d{3,4})', s): the group-1 strings, in order
rupee_findall(s) ==
  LET from[i \in 1..(Len(s) + 1)] ==
        IF i > Len(s) THEN << >>
        ELSE LET j == rupee_group_at(s, i)
                 n == IF digit_run(s, j) >= 4 THEN 4 ELSE 3
             IN  IF j > 0
                 THEN <<SubSeq(s, j, j + n - 1)>> \o from[j + n]
                 ELSE from[i + 1]
  IN  from[1]

(***************************************************************************)
(* FollowUpManager: the pattern table                                      *)
(***************************************************************************)
\* A regular expression of the table: its literal text and its anchors.
Pat(t, c, d) == [text |-> t, caret |-> c, dollar |-> d]

ambiguous_patterns ==
  << [category |-> "vague_plan", context_type |-> "plan_recommendation",
      follow_ups |-> <<"vague_plan_q1", "vague_plan_q2">>,
      patterns |-> << Pat(<<"p","l","a","n">>, TRUE, TRUE),
                      Pat(<<"b","e","s","t"," ","p","l","a","n">>, TRUE, TRUE),
                      Pat(<<"g","o","o","d"," ","p","l","a","n">>, TRUE, TRUE),
                      Pat(<<"p","l","a","n","s">>, TRUE, TRUE),
                      Pat(<<"r","e","c","h","a","r","g","e">>, TRUE, TRUE),
                      Pat(<<"m","o","b","i","l","e"," ","p","l","a","n">>, TRUE, TRUE),
                      Pat(<<"j","i","o"," ","p","l","a","n">>, TRUE, TRUE) >>],
     [category |-> "incomplete_comparison", context_type |-> "comparison",
      follow_ups |-> <<"incomplete_comparison_q1", "incomplete_comparison_q2">>,
      patterns |-> << Pat(<<"c","o","m","p","a","r","e">>, TRUE, TRUE),
                      Pat(<<"c","o","m","p","a","r","i","s","o","n">>, TRUE, TRUE),
                      Pat(<<"w","h","i","c","h"," ","i","s"," ","b","e","t","t","e","r">>, TRUE, TRUE),
                      Pat(<<"c","o","m","p","a","r","e"," ","p","l","a","n","s">>, TRUE, TRUE),
                      Pat(<<"v","s">>, TRUE, TRUE) >>],
     [category |-> "missing_location", context_type |-> "5g_check",
      follow_ups |-> <<"missing_location_q1", "missing_location_q2">>,
      patterns |-> << Pat(<<"5","g">>, TRUE, TRUE),
                      Pat(<<"5","g"," ","a","v","a","i","l","a","b","i","l","i","t","y">>, TRUE, TRUE),
                      Pat(<<"i","s"," ","5","g"," ","a","v","a","i","l","a","b","l","e">>, TRUE, TRUE),
                      Pat(<<"c","h","e","c","k"," ","5","g">>, TRUE, TRUE),
                      Pat(<<"5","g"," ","c","o","v","e","r","a","g","e">>, TRUE, TRUE) >>],
     [category |-> "unclear_budget", context_type |-> "budget_plan",
      follow_ups |-> <<"unclear_budget_q1", "unclear_budget_q2">>,
      patterns |-> << Pat(<<"c","h","e","a","p">>, FALSE, FALSE),
                      Pat(<<"c","h","e","a","p","e","s","t">>, FALSE, FALSE),
                      Pat(<<"a","f","f","o","r","d","a","b","l","e">>, FALSE, FALSE),
                      Pat(<<"b","u","d","g","e","t"," ","p","l","a","n">>, FALSE, FALSE),
                      Pat(<<"e","c","o","n","o","m","i","c","a","l">>, FALSE, FALSE),
                      Pat(<<"l","o","w"," ","c","o","s","t">>, FALSE, FALSE) >>],
     [category |-> "missing_user_type", context_type |-> "recommendation",
      follow_ups |-> <<"missing_user_type_q1", "missing_user_type_q2">>,
      patterns |-> << Pat(<<"r","e","c","o","m","m","e","n","d">>, TRUE, FALSE),
                      Pat(<<"s","u","g","g","e","s","t">>, TRUE, FALSE),
                      Pat(<<"w","h","a","t"," ","s","h","o","u","l","d"," ","i">>, TRUE, FALSE),
                      Pat(<<"w","h","i","c","h"," ","p","l","a","n"," ","f","o","r"," ","m","e">>, TRUE, FALSE),
                      Pat(<<"b","e","s","t"," ","f","o","r"," ","m","e">>, TRUE, FALSE) >>],
     [category |-> "vague_problem", context_type |-> "general_help",
      follow_ups |-> <<"vague_problem_q1", "vague_problem_q2">>,
      patterns |-> << Pat(<<"h","e","l","p">>, TRUE, TRUE),
                      Pat(<<"i"," ","n","e","e","d"," ","h","e","l","p">>, TRUE, TRUE),
                      Pat(<<"a","s","s","i","s","t">>, TRUE, FALSE),
                      Pat(<<"s","u","p","p","o","r","t">>, TRUE, TRUE),
                      Pat(<<"i","s","s","u","e">>, TRUE, TRUE),
                      Pat(<<"p","r","o","b","l","e","m">>, TRUE, TRUE) >> ] >>

(***************************************************************************)
(* FollowUpManager: detection, store, merge                                *)
(***************************************************************************)
\* re.match(pattern, s): always anchored at the start of s, whether or not
\* the pattern has a caret; a final $ demands the end of s (or a last "\n").
re_match(p, s) ==
  IF p.dollar
  THEN s = p.text \/ s = p.text \o <<"NL">>
  ELSE occurs_at(s, p.text, 1)

\* does some pattern of category number c match the normalized query
category_matches(c, query_lower) ==
  \E k \in 1..Len(ambiguous_patterns[c].patterns) :
     re_match(ambiguous_patterns[c].patterns[k], query_lower)

NoFollowUp ==
  [needs |-> FALSE, category |-> "None", context_type |-> "None", questions |-> {}]

\* needs_follow_up returning the category name where the context_type belongs
follow_up_for_category(config) ==
  [needs |-> TRUE, category |-> config.category,
   context_type |-> config.category,
   questions |-> {config.follow_ups[i] : i \in 1..Len(config.follow_ups)}]

\* the positive return of needs_follow_up for a matching category.
\* questions is the set of clarifying questions the call may return
\* (random.choice over the category's pool).
follow_up_for(config) ==
  [needs |-> TRUE, category |-> config.category,
   context_type |-> config.context_type,
   questions |-> {config.follow_ups[i] : i \in 1..Len(config.follow_ups)}]

\* the categories, by number, with a pattern that matches
matching_categories(query_lower) ==
  {c \in 1..Len(ambiguous_patterns) : category_matches(c, query_lower)}

\* the short-query rule of needs_follow_up
short_plan_query(query, query_lower) ==
  /\ word_count(query) <= 2
  /\ ~any_digit(query)
  /\ (contains(query_lower, <<"p","l","a","n">>) \/ contains(query_lower, <<"r","e","c","h","a","r","g","e">>))

\* a detection that applies the short-query rule before the pattern table
needs_follow_up_short_first(query) ==
  IF short_plan_query(query, strip(lower(query)))
  THEN [needs |-> TRUE, category |-> "vague_plan",
        context_type |-> "plan_recommendation",
        questions |-> {ambiguous_patterns[1].follow_ups[1]}]
  ELSE IF matching_categories(strip(lower(query))) # {}
  THEN follow_up_for(
         ambiguous_patterns[SetMin(matching_categories(strip(lower(query))))])
  ELSE NoFollowUp

\* FollowUpManager.needs_follow_up
needs_follow_up(query) ==
  IF matching_categories(strip(lower(query))) # {}
  THEN follow_up_for(
         ambiguous_patterns[SetMin(matching_categories(strip(lower(query))))])
  ELSE IF short_plan_query(query, strip(lower(query)))
       THEN [needs |-> TRUE, category |-> "vague_plan",
             context_type |-> "plan_recommendation",
             questions |-> {ambiguous_patterns[1].follow_ups[1]}]
       ELSE NoFollowUp

\* a store_context that stores nothing
store_context_dropped(pending, session_id, original_query, context_type, time) ==
  pending

\* FollowUpManager.store_context: pending is the dict pending_context
store_context(pending, session_id, original_query, context_type, time) ==
  [s \in DOMAIN pending \cup {session_id} |->
     IF s = session_id
     THEN [original_query |-> original_query, context_type |-> context_type,
           timestamp |-> time]
     ELSE pending[s]]

\* a clear_context that deletes nothing
clear_context_kept(pending, session_id) == pending

\* FollowUpManager.clear_context
clear_context(pending, session_id) ==
  [s \in DOMAIN pending \ {session_id} |-> pending[s]]

\* usage_patterns of merge_with_context, in dict order
usage_patterns ==
  << <<<<"l","i","g","h","t">>, <<"1","G","B">>>>, <<<<"m","e","d","i","u","m">>, <<"2","G","B">>>>, <<<<"h","e","a","v","y">>, <<"3","G","B">>>>,
     <<<<"<","1">>, <<"1","G","B">>>>, <<<<"1","-","2">>, <<"2","G","B">>>>, <<<<"3","+">>, <<"3","G","B">>>>,
     <<<<"2","g","b">>, <<"2","G","B">>>>, <<<<"3","g","b">>, <<"3","G","B">>>> >>

\* the budget of the plan_recommendation and budget_plan rules: group 1 of
\* re.search(r'a^q,^1?(\d{3,4})', new_query), << >> when there is no match
budget_match(new_query) ==
  LET found == rupee_findall(new_query)
  IN  IF Len(found) >= 1 THEN found[1] ELSE << >>

\* the prices of the comparison rule: re.findall(r'a^q,^1?(\d{3,4})', new_query)
comparison_prices(new_query) == rupee_findall(new_query)

merge_usage(new_query) ==
  LET hits == {k \in 1..Len(usage_patterns) :
                 contains(lower(new_query), usage_patterns[k][1])}
  IN  IF hits = {} THEN <<"2","G","B">> ELSE usage_patterns[SetMin(hits)][2]

merge_user_type(new_query) ==
  IF contains(lower(new_query), <<"s","t","u","d","e","n","t">>) THEN <<"s","t","u","d","e","n","t">>
  ELSE IF contains(lower(new_query), <<"p","r","o","f","e","s","s","i","o","n","a","l">>) \/ contains(lower(new_query), <<"w","o","r","k">>)
       THEN <<"p","r","o","f","e","s","s","i","o","n","a","l">>
  ELSE IF contains(lower(new_query), <<"f","a","m","i","l","y">>) THEN <<"f","a","m","i","l","y">>
  ELSE <<"g","e","n","e","r","a","l">>

\* the plan_recommendation rule of merge_with_context
merge_plan_recommendation(new_query, budget) ==
  <<"R","e","c","o","m","m","e","n","d"," ","b","e","s","t"," ">> \o merge_user_type(new_query) \o <<" ","p","l","a","n"," ","u","n","d","e","r"," ","a^","q,","^1">>
    \o (IF budget # << >> THEN budget ELSE <<"5","0","0">>)
    \o <<" ","w","i","t","h"," ">> \o merge_usage(new_query) \o <<" ","d","a","i","l","y"," ","d","a","t","a">>

\* the comparison rule
merge_comparison(new_query, prices) ==
  IF Len(prices) >= 2
  THEN <<"C","o","m","p","a","r","e"," ","a^","q,","^1">> \o prices[1] \o <<" ","v","s"," ","a^","q,","^1">> \o prices[2] \o <<" ","p","l","a","n","s">>
  ELSE <<"C","o","m","p","a","r","e"," ","p","l","a","n","s",":"," ">> \o new_query

\* a 5g_check rule that trims the answer
merge_5g_check_trimmed(new_query) ==
  <<"C","h","e","c","k"," ","5","G"," ","a","v","a","i","l","a","b","i","l","i","t","y"," ","i","n"," ">> \o strip(new_query)

\* the 5g_check rule
merge_5g_check(new_query) == <<"C","h","e","c","k"," ","5","G"," ","a","v","a","i","l","a","b","i","l","i","t","y"," ","i","n"," ">> \o new_query

\* the budget_plan rule
merge_budget_plan(new_query, budget) ==
  IF budget # << >>
  THEN <<"B","e","s","t"," ","p","l","a","n","s"," ","u","n","d","e","r"," ","a^","q,","^1">> \o budget
  ELSE <<"C","h","e","a","p","e","s","t"," ","p","l","a","n","s"," ">> \o new_query

\* a generic merge that keeps the answer alone
merge_generic_answer_only(original, new_query) == new_query

\* the generic merge
merge_generic(original, new_query) == original \o <<" ","-"," ">> \o new_query

\* the branches of merge_with_context for one stored record
enhanced_query(context, new_query) ==
  IF context.context_type = "plan_recommendation"
  THEN merge_plan_recommendation(new_query, budget_match(new_query))
  ELSE IF context.context_type = "comparison"
  THEN merge_comparison(new_query, comparison_prices(new_query))
  ELSE IF context.context_type = "5g_check"
  THEN merge_5g_check(new_query)
  ELSE IF context.context_type = "budget_plan"
  THEN merge_budget_plan(new_query, budget_match(new_query))
  ELSE merge_generic(context.original_query, new_query)

\* FollowUpManager.merge_with_context
merge_with_context(pending, session_id, new_query) ==
  IF session_id \notin DOMAIN pending
  THEN new_query
  ELSE enhanced_query(pending[session_id], new_query)

(***************************************************************************)
(* JioOrchestrator: classification, strategy, canned replies               *)
(***************************************************************************)
greetings ==
  << <<"h","i">>, <<"h","e","l","l","o">>, <<"h","e","y">>, <<"n","a","m","a","s","t","e">>, <<"g","o","o","d"," ","m","o","r","n","i","n","g">>, <<"g","o","o","d"," ","e","v","e","n","i","n","g">> >>

thanks ==
  << <<"t","h","a","n","k","s">>, <<"t","h","a","n","k"," ","y","o","u">>, <<"b","y","e">>, <<"g","o","o","d","b","y","e">>, <<"o","k">>, <<"o","k","a","y">> >>

force_tool_keywords ==
  << <<"1","9","9">>, <<"2","9","9">>, <<"3","9","9">>, <<"5","9","9">>, <<"9","9","9">>, <<"1","4","9","9">>,
     <<"p","l","a","n">>, <<"p","r","i","c","e">>, <<"c","o","s","t">>, <<"r","u","p","e","e">>, <<"a^","q,","^1">>, <<"r","e","c","h","a","r","g","e">>,
     <<"p","r","e","p","a","i","d">>, <<"p","o","s","t","p","a","i","d">>, <<"m","o","b","i","l","e">>, <<"f","i","b","e","r">>, <<"b","r","o","a","d","b","a","n","d">>,
     <<"5","g">>, <<"d","a","t","a">>, <<"v","a","l","i","d","i","t","y">>, <<"g","b">>, <<"m","b","p","s">>, <<"s","p","e","e","d">>,
     <<"u","n","l","i","m","i","t","e","d">>, <<"c","a","l","l","s">>, <<"s","m","s">>, <<"o","t","t">>, <<"a","p","p","s">>,
     <<"d","e","t","a","i","l","s">>, <<"s","h","o","w">>, <<"t","e","l","l">>, <<"w","h","a","t">>, <<"w","h","i","c","h">>, <<"h","o","w">>,
     <<"g","i","v","e">>, <<"p","r","o","v","i","d","e">>, <<"e","x","p","l","a","i","n">>, <<"l","i","s","t">>,
     <<"c","o","m","p","a","r","e">>, <<"v","e","r","s","u","s">>, <<"v","s">>, <<"b","e","t","t","e","r">>, <<"b","e","s","t">>, <<"g","o","o","d">>,
     <<"d","i","f","f","e","r","e","n","c","e">>, <<"c","h","o","o","s","e">>, <<"r","e","c","o","m","m","e","n","d">>, <<"s","u","g","g","e","s","t">>,
     <<"s","t","u","d","e","n","t">>, <<"f","a","m","i","l","y">>, <<"p","r","o","f","e","s","s","i","o","n","a","l">>, <<"b","u","s","i","n","e","s","s">>,
     <<"w","o","r","k">>, <<"h","o","m","e">>, <<"o","f","f","i","c","e">>,
     <<"j","i","o">>, <<"a","v","a","i","l","a","b","l","e">>, <<"o","f","f","e","r">>, <<"b","e","n","e","f","i","t">>, <<"f","e","a","t","u","r","e">> >>

complex_keywords ==
  << <<"c","o","m","p","a","r","e">>, <<"v","e","r","s","u","s">>, <<"v","s">>, <<"c","a","l","c","u","l","a","t","e">>, <<"d","e","s","i","g","n">>,
     <<"b","u","n","d","l","e">>, <<"c","o","m","p","l","e","t","e"," ","s","o","l","u","t","i","o","n">>, <<"m","u","l","t","i","p","l","e">>, <<"a","l","l">> >>

question_words ==
  << <<"w","h","a","t">>, <<"w","h","i","c","h">>, <<"h","o","w">>, <<"w","h","e","n">>, <<"w","h","e","r","e">>, <<"w","h","y">> >>

\* "x in list" for a list of strings
is_member(list, x) == \E k \in 1..Len(list) : list[k] = x

\* a classifier for which an aggregation term alone makes a query complex
get_query_complexity_by_term(query) ==
  IF is_member(greetings, strip(lower(query))) \/ is_member(thanks, strip(lower(query)))
  THEN "simple"
  ELSE IF any_in(complex_keywords, strip(lower(query))) THEN "complex"
  ELSE "medium"

\* a classifier that finds a greeting or an acknowledgment anywhere in the
\* query, as the canned replies do
get_query_complexity_by_substring(query) ==
  IF any_in(greetings, strip(lower(query))) \/ any_in(thanks, strip(lower(query)))
  THEN "simple"
  ELSE IF ~any_in(force_tool_keywords, strip(lower(query))) THEN "medium"
  ELSE IF any_in(complex_keywords, strip(lower(query))) THEN "complex"
  ELSE "medium"

\* JioOrchestrator._get_query_complexity
get_query_complexity(query) ==
  LET query_lower == strip(lower(query))
      wc == word_count(query)
  IN  IF is_member(greetings, query_lower) /\ wc <= 2 THEN "simple"
      ELSE IF is_member(thanks, query_lower) THEN "simple"
      ELSE IF any_in(force_tool_keywords, query_lower)
           THEN IF any_in(complex_keywords, query_lower) THEN "complex" ELSE "medium"
      ELSE IF \/ contains(query, <<"?">>)
              \/ \E k \in 1..Len(question_words) : word_in_split(query_lower, question_words[k])
           THEN "medium"
      ELSE "medium"

urgent_keywords ==
  << <<"u","r","g","e","n","t">>, <<"a","s","a","p">>, <<"i","m","m","e","d","i","a","t","e","l","y">>, <<"n","o","w">>, <<"q","u","i","c","k">> >>

consensus_keywords ==
  << <<"c","o","m","p","a","r","e">>, <<"v","e","r","s","u","s">>, <<"v","s">>, <<"w","h","i","c","h"," ","i","s"," ","b","e","t","t","e","r">>, <<"d","i","f","f","e","r","e","n","c","e">> >>

hierarchical_keywords ==
  << <<"c","o","m","p","l","e","t","e"," ","s","o","l","u","t","i","o","n">>, <<"b","u","n","d","l","e">>, <<"f","a","m","i","l","y"," ","p","l","a","n">>, <<"d","e","s","i","g","n">>,
     <<"m","u","l","t","i","p","l","e">>, <<"e","v","e","r","y","t","h","i","n","g">> >>

\* a selector that tests the comparison terms before the urgency terms
select_strategy_comparison_first(query, complexity) ==
  IF complexity = "simple" THEN <<"d","i","r","e","c","t">>
  ELSE IF any_in(consensus_keywords, lower(query)) THEN <<"c","o","n","s","e","n","s","u","s">>
  ELSE IF any_in(urgent_keywords, lower(query)) THEN <<"p","a","r","a","l","l","e","l">>
  ELSE IF any_in(hierarchical_keywords, lower(query)) THEN <<"h","i","e","r","a","r","c","h","i","c","a","l">>
  ELSE <<"s","e","q","u","e","n","t","i","a","l">>

\* JioOrchestrator._select_strategy (complexity is always passed by orchestrate)
select_strategy(query, complexity) ==
  LET query_lower == lower(query)
  IN  IF complexity = "simple" THEN <<"d","i","r","e","c","t">>
      ELSE IF any_in(urgent_keywords, query_lower) THEN <<"p","a","r","a","l","l","e","l">>
      ELSE IF any_in(consensus_keywords, query_lower) THEN <<"c","o","n","s","e","n","s","u","s">>
      ELSE IF any_in(hierarchical_keywords, query_lower) THEN <<"h","i","e","r","a","r","c","h","i","c","a","l">>
      ELSE <<"s","e","q","u","e","n","t","i","a","l">>

direct_thanks == << <<"t","h","a","n","k","s">>, <<"t","h","a","n","k"," ","y","o","u">>, <<"d","h","a","n","y","a","w","a","d">> >>

direct_goodbye == << <<"b","y","e">>, <<"g","o","o","d","b","y","e">>, <<"s","e","e"," ","y","o","u">> >>

\* JioOrchestrator._handle_direct_response: the canned reply, "None" when the
\* query matches none of the three groups
handle_direct_response(query) ==
  LET query_lower == strip(lower(query))
  IN  IF any_in(greetings, query_lower) THEN "GREETING"
      ELSE IF any_in(direct_thanks, query_lower) THEN "THANKS"
      ELSE IF any_in(direct_goodbye, query_lower) THEN "GOODBYE"
      ELSE "None"

(***************************************************************************)
(* JioOrchestrator._get_mcp_data: the tool aggregator                      *)
(*                                                                         *)
(* The MCP client is an opaque collaborator.  out gives, for each call     *)
(* site, what the collaborator does there: "ok" (a usable text), "none"    *)
(* (an empty text or the not-found sentinel) or "raise" (an exception).    *)
(***************************************************************************)
CallSites ==
  {"plan_search", "plan_details", "compare", "check_5g", "recommend", "feature_search"}

Outcomes == {"ok", "none", "raise"}

plan_keywords ==
  << <<"p","l","a","n">>, <<"m","o","b","i","l","e">>, <<"r","e","c","h","a","r","g","e">>, <<"p","r","e","p","a","i","d">>, <<"p","o","s","t","p","a","i","d">>,
     <<"f","i","b","e","r">>, <<"b","r","o","a","d","b","a","n","d">>, <<"j","i","o">>, <<"d","a","t","a">>, <<"v","a","l","i","d","i","t","y">> >>

comparison_keywords ==
  << <<"c","o","m","p","a","r","e">>, <<"v","s">>, <<"v","e","r","s","u","s">>, <<"b","e","t","t","e","r">>, <<"d","i","f","f","e","r","e","n","c","e">>, <<"w","h","i","c","h">> >>

cities ==
  << <<"m","u","m","b","a","i">>, <<"d","e","l","h","i">>, <<"b","a","n","g","a","l","o","r","e">>, <<"c","h","e","n","n","a","i">>, <<"k","o","l","k","a","t","a">>,
     <<"h","y","d","e","r","a","b","a","d">>, <<"p","u","n","e">>, <<"a","h","m","e","d","a","b","a","d">>, <<"j","a","i","p","u","r">>, <<"l","u","c","k","n","o","w">>,
     <<"k","a","n","p","u","r">>, <<"n","a","g","p","u","r">>, <<"v","i","s","a","k","h","a","p","a","t","n","a","m">>, <<"b","h","o","p","a","l">>, <<"p","a","t","n","a">> >>

\* user_indicators, in dict order
user_indicators ==
  << [user_type |-> <<"s","t","u","d","e","n","t">>,
      keywords |-> << <<"s","t","u","d","e","n","t">>, <<"c","o","l","l","e","g","e">>, <<"u","n","i","v","e","r","s","i","t","y">>, <<"s","t","u","d","y">>, <<"c","a","m","p","u","s">> >>],
     [user_type |-> <<"f","a","m","i","l","y">>,
      keywords |-> << <<"f","a","m","i","l","y">>, <<"h","o","m","e">>, <<"p","a","r","e","n","t","s">>, <<"k","i","d","s">>, <<"h","o","u","s","e","h","o","l","d">> >>],
     [user_type |-> <<"p","r","o","f","e","s","s","i","o","n","a","l">>,
      keywords |-> << <<"p","r","o","f","e","s","s","i","o","n","a","l">>, <<"w","o","r","k">>, <<"o","f","f","i","c","e">>, <<"b","u","s","i","n","e","s","s">>, <<"j","o","b">>, <<"m","e","e","t","i","n","g">> >>],
     [user_type |-> <<"b","u","s","i","n","e","s","s">>,
      keywords |-> << <<"b","u","s","i","n","e","s","s">>, <<"c","o","m","p","a","n","y">>, <<"e","n","t","e","r","p","r","i","s","e">>, <<"c","o","r","p","o","r","a","t","e">>, <<"s","t","a","r","t","u","p">> >>] >>

recommendation_keywords ==
  << <<"r","e","c","o","m","m","e","n","d">>, <<"s","u","g","g","e","s","t">>, <<"b","e","s","t">>, <<"g","o","o","d">>, <<"s","u","i","t","a","b","l","e">>, <<"i","d","e","a","l">> >>

\* popular_alternatives
popular_alternative(price) ==
  IF price = <<"1","9","9">> THEN <<"2","9","9">>
  ELSE IF price = <<"2","9","9">> THEN <<"3","9","9">>
  ELSE IF price = <<"3","9","9">> THEN <<"5","9","9">>
  ELSE << >>

\* int(price) for a string of digits
int_of(d) ==
  LET value[k \in 0..Len(d)] ==
        IF k = 0 THEN 0
        ELSE 10 * value[k - 1]
             + (CHOOSE n \in 0..9 :
                  <<"0","1","2","3","4","5","6","7","8","9">>[n + 1] = d[k])
  IN  value[Len(d)]

\* first position at or after i that holds no whitespace (the regex \s*)
skip_ws(s, i) ==
  IF i > Len(s) THEN i
  ELSE SetMin({j \in i..(Len(s) + 1) : j = Len(s) + 1 \/ s[j] \notin Whitespace})

\* budget_patterns: each is a sequence of words separated by \s*, followed by
\* \s* a^q,^1? \s* (\d{3,4})
budget_patterns ==
  << << <<"u","n","d","e","r">> >>, << <<"b","u","d","g","e","t">> >>, << <<"l","e","s","s">>, <<"t","h","a","n">> >>,
     << <<"m","a","x">> >>, << <<"b","e","l","o","w">> >> >>

\* position just after the words of pattern p (and the \s* after each)
\* matched at i, 0 when they do not match there
words_end(s, p, i) ==
  LET after[k \in 0..Len(p)] ==
        IF k = 0 THEN i
        ELSE LET b == after[k - 1]
             IN  IF b > 0 /\ occurs_at(s, p[k], b)
                 THEN skip_ws(s, b + Len(p[k]))
                 ELSE 0
  IN  after[Len(p)]

\* group 1 of budget pattern p matched at position i of s, << >> if no match
budget_group_at(s, p, i) ==
  LET e == words_end(s, p, i)
  IN  IF e = 0 THEN << >>
      ELSE IF ~(e + 1 <= Len(s) /\ s[e] = "a^" /\ s[e + 1] = "q,") THEN << >>
      ELSE LET a == IF e + 2 <= Len(s) /\ s[e + 2] = "^1" THEN e + 3 ELSE e + 2
               j == skip_ws(s, a)
               r == digit_run(s, j)
           IN  IF r >= 3 THEN SubSeq(s, j, j + (IF r >= 4 THEN 4 ELSE 3) - 1) ELSE << >>

\* re.search(p, s).group(1), << >> if there is no match
budget_search(s, p) ==
  LET at == {i \in 1..Len(s) : budget_group_at(s, p, i) # << >>}
  IN  IF at = {} THEN << >> ELSE budget_group_at(s, p, SetMin(at))

\* the budget of step 5: first pattern that matches, << >> for None
extract_budget(query_lower) ==
  LET hits == {k \in 1..Len(budget_patterns) :
                 budget_search(query_lower, budget_patterns[k]) # << >>}
  IN  IF hits = {} THEN << >>
      ELSE budget_search(query_lower, budget_patterns[SetMin(hits)])

detected_user_type(query_lower) ==
  LET hits == {k \in 1..Len(user_indicators) :
                 any_in(user_indicators[k].keywords, query_lower)}
  IN  IF hits = {} THEN << >> ELSE user_indicators[SetMin(hits)].user_type

usage_level(query_lower) ==
  IF \/ contains(query_lower, <<"h","e","a","v","y">>) \/ contains(query_lower, <<"l","o","t">>)
     \/ contains(query_lower, <<"h","i","g","h">>)
  THEN <<"h","i","g","h">>
  ELSE IF \/ contains(query_lower, <<"l","i","g","h","t">>) \/ contains(query_lower, <<"b","a","s","i","c">>)
          \/ contains(query_lower, <<"l","o","w">>)
       THEN <<"l","o","w">>
  ELSE <<"m","e","d","i","u","m">>

\* str.title() of a lower-case city name
title(c) ==
  <<UpperCase[CHOOSE i \in 1..26 : LowerCase[i] = c[1]]>> \o Tail(c)

resolve_city(query_lower) ==
  LET hits == {k \in 1..Len(cities) : contains(query_lower, cities[k])}
  IN  IF hits = {} THEN <<"M","u","m","b","a","i">> ELSE title(cities[SetMin(hits)])

\* One collaborator call of the aggregator: the call site, the tool and its
\* arguments, and the key of mcp_data its result is stored under.
McpCall(site, tool, args, key) ==
  [site |-> site, tool |-> tool, args |-> args, key |-> key]

\* plan details stored under one key for all prices
details_calls_one_key(prices) ==
  [k \in 1..Len(prices) |->
     McpCall("plan_details", "get_plan_details", <<prices[k]>>, <<"p","l","a","n","_","d","e","t","a","i","l","s">>)]

\* step 2: plan details for every price in [100, 5000]
details_calls(prices) ==
  LET upto[k \in 0..Len(prices)] ==
        IF k = 0 THEN << >>
        ELSE IF 100 <= int_of(prices[k]) /\ int_of(prices[k]) <= 5000
             THEN Append(upto[k - 1],
                         McpCall("plan_details", "get_plan_details", <<prices[k]>>,
                                 <<"p","l","a","n","_">> \o prices[k]))
             ELSE upto[k - 1]
  IN  upto[Len(prices)]

\* a comparison of the first two prices in the opposite order
compare_calls_swapped(query_lower, prices) ==
  IF any_in(comparison_keywords, query_lower) /\ Len(prices) >= 2
  THEN << McpCall("compare", "compare_plans", <<prices[2], prices[1]>>,
                  <<"c","o","m","p","a","r","i","s","o","n">>) >>
  ELSE << >>

\* step 3: comparison
compare_calls(query_lower, prices) ==
  IF ~any_in(comparison_keywords, query_lower) THEN << >>
  ELSE IF Len(prices) >= 2
       THEN << McpCall("compare", "compare_plans", <<prices[1], prices[2]>>,
                       <<"c","o","m","p","a","r","i","s","o","n">>) >>
  ELSE IF Len(prices) = 1 /\ popular_alternative(prices[1]) # << >>
       THEN << McpCall("compare", "compare_plans",
                       <<prices[1], popular_alternative(prices[1])>>,
                       <<"c","o","m","p","a","r","i","s","o","n">>) >>
  ELSE << >>

\* step 5: recommendation
recommend_calls(query_lower) ==
  LET user == detected_user_type(query_lower)
  IN  IF user # << >> \/ any_in(recommendation_keywords, query_lower)
      THEN << McpCall("recommend", "recommend_plan",
                      << IF user # << >> THEN user ELSE <<"g","e","n","e","r","a","l">>,
                         usage_level(query_lower),
                         extract_budget(query_lower) >>,
                      <<"r","e","c","o","m","m","e","n","d","a","t","i","o","n">>) >>
      ELSE << >>

\* the collaborator calls the six checks of _get_mcp_data make for a query
\* when none of them raises, in order
planned_calls(query) ==
  LET query_lower == lower(query)
      prices == findall_digits(query)
  IN  (IF any_in(plan_keywords, query_lower)
       THEN << McpCall("plan_search", "search_plans", <<query, <<"a","l","l">>>>,
                       <<"p","l","a","n","_","s","e","a","r","c","h">>) >>
       ELSE << >>)
      \o details_calls(prices)
      \o compare_calls(query_lower, prices)
      \o (IF contains(query_lower, <<"5","g">>) \/ contains(query_lower, <<"f","i","v","e"," ","g">>)
          THEN << McpCall("check_5g", "check_5g_availability",
                          <<resolve_city(query_lower)>>, <<"5","g","_","a","v","a","i","l","a","b","i","l","i","t","y">>) >>
          ELSE << >>)
      \o recommend_calls(query_lower)
      \o (IF \/ contains(query_lower, <<"u","n","l","i","m","i","t","e","d">>) \/ contains(query_lower, <<"o","t","t">>)
             \/ contains(query_lower, <<"n","e","t","f","l","i","x">>)
          THEN << McpCall("feature_search", "search_plans", <<query, <<"a","l","l">>>>,
                          <<"f","e","a","t","u","r","e","_","s","e","a","r","c","h">>) >>
          ELSE << >>)

(***************************************************************************)
(* Messages of the bounded runs, and the table of their analyses           *)
(***************************************************************************)
q_plan == <<"p","l","a","n">>

q_compare == <<"c","o","m","p","a","r","e">>

q_5g == <<"5","g">>

q_cheap == <<"c","h","e","a","p">>

q_recommend == <<"r","e","c","o","m","m","e","n","d">>

q_help == <<"h","e","l","p">>

q_hi == <<"h","i">>

q_hello == <<"H","e","l","l","o"," ">>

q_ok == <<"o","k">>

a_budget == <<"u","n","d","e","r"," ","3","0","0",","," ","s","t","u","d","e","n","t">>

a_prices == <<"2","9","9"," ","a","n","d"," ","3","9","9">>

a_city == <<" ","M","u","m","b","a","i"," ">>

q_299 == <<"2","9","9">>

q_compare_two == <<"c","o","m","p","a","r","e"," ","2","9","9"," ","a","n","d"," ","3","9","9">>

q_compare_three == <<"C","o","m","p","a","r","e"," ","3","9","9"," ","v","s"," ","2","9","9"," ","o","r"," ","1","9","9">>

q_compare_now == <<"c","o","m","p","a","r","e"," ","2","9","9"," ","a","n","d"," ","3","9","9"," ","n","o","w">>

q_want_cheap == <<"s","o","m","e","t","h","i","n","g"," ","c","h","e","a","p">>

q_six == <<"c","o","m","p","a","r","e"," ","2","9","9"," ","p","l","a","n"," ","5","g"," ","o","t","t"," ","s","t","u","d","e","n","t">>

q_compare_big == <<"c","o","m","p","a","r","e"," ","9","9","9","9"," ","a","n","d"," ","2","9","9"," ","a","n","d"," ","3","9","9">>

q_compare_big_one == <<"c","o","m","p","a","r","e"," ","9","9","9","9"," ","a","n","d"," ","2","9","9">>

q_good_morning == <<"g","o","o","d"," ","m","o","r","n","i","n","g">>

q_best == <<"b","e","s","t">>

q_what == <<"w","h","a","t">>

q_student_budget == <<"b","e","s","t"," ","s","t","u","d","e","n","t"," ","p","l","a","n"," ","u","n","d","e","r"," ","3","0","0">>

q_colon == <<"2","9","9",":","x">>

q_which == <<"w","h","i","c","h">>

q_goodbye == <<"G","o","o","d","b","y","e">>

q_family_heavy == <<"h","e","a","v","y"," ","f","a","m","i","l","y"," ","p","l","a","n">>

q_suggest == <<"s","u","g","g","e","s","t"," ","s","o","m","e","t","h","i","n","g">>

\* a strategy string with a colon in it
s_x_auto == <<"x",":","a","u","t","o">>

\* the queries sent to orchestrate only, past the follow-up layer
DirectQueries ==
  {q_six, q_compare_big, q_compare_big_one, q_good_morning, q_best, q_what,
   q_student_budget, q_colon, q_which, q_goodbye, q_family_heavy, q_suggest}

\* every message a bounded run sends
Messages ==
  {q_plan, q_compare, q_5g, q_cheap, q_recommend, q_help, q_hi, q_hello,
   q_ok, a_budget, a_prices, a_city,
   q_299, q_compare_two, q_compare_three, q_compare_now, q_want_cheap}

\* the messages that draw a clarifying question, with the context_type stored
Ambiguous ==
  {[original_query |-> r.query, context_type |-> r.detected.context_type] :
     r \in {[query |-> m, detected |-> needs_follow_up(m)] : m \in Messages}}

\* every query orchestrate can be handed: a message as sent, or the merge of
\* a stored record with the message that answers it
Processed ==
  Messages \cup DirectQueries \cup
  {enhanced_query(c, a) : c \in {x \in Ambiguous : x.context_type # "None"},
                          a \in Messages}

\* what the pure methods of JioOrchestrator compute for one query
analysed(query, complexity) ==
  [query |-> query,
   complexity |-> complexity,
   direct |-> handle_direct_response(query),
   auto_strategy |-> select_strategy(query, complexity),
   planned |-> planned_calls(query)]

analyse(query) == analysed(query, get_query_complexity(query))

\* the analyses of the queries of the bounded runs, computed once
AnalysisTable == {analyse(q) : q \in Processed}

analysis(query) == CHOOSE r \in AnalysisTable : r.query = query

\* follow-up detection of the messages of the bounded runs, computed once
DetectionTable == {[query |-> m, detected |-> needs_follow_up(m)] : m \in Messages}

detection(query) == (CHOOSE r \in DetectionTable : r.query = query).detected

\* the aggregation has no client
McpStart == [keys |-> << >>, usage |-> 0, calls |-> << >>, raised |-> FALSE]

\* The whole body of _get_mcp_data is one try block: the first call that
\* raises ends it.  The number of collaborator calls made.
calls_made(planned, out) ==
  IF \A k \in 1..Len(planned) : out[planned[k].site] # "raise"
  THEN Len(planned)
  ELSE SetMin({k \in 1..Len(planned) : out[planned[k].site] = "raise"})

\* the calls whose result is stored in mcp_data
calls_stored(planned, out, made) ==
  {k \in 1..made : out[planned[k].site] = "ok"}

\* the stored calls that add a new key to mcp_data, in increasing order
new_keys(planned, stored) ==
  {k \in stored : \A j \in stored : j < k => planned[j].key # planned[k].key}

\* the k-th smallest element of a set of indices
kth(S, i) == CHOOSE k \in S : Cardinality({j \in S : j < k}) = i - 1

mcp_gathered(planned, made, stored, firsts) ==
  [keys |-> [i \in 1..Cardinality(firsts) |-> planned[kth(firsts, i)].key],
   usage |-> Cardinality(stored),
   calls |-> [i \in 1..made |-> [tool |-> planned[i].tool, args |-> planned[i].args]],
   raised |-> FALSE]

mcp_stored(planned, out, made) ==
  mcp_gathered(planned, made, calls_stored(planned, out, made),
               new_keys(planned, calls_stored(planned, out, made)))

\* JioOrchestrator._get_mcp_data for a query whose collaborator calls are
\* planned; mcp_client is FALSE when the client is None.  keys are the keys
\* of mcp_data in insertion order, usage the number of mcp_usage increments,
\* calls the collaborator calls made.
get_mcp_data(mcp_client, planned, out) ==
  IF ~mcp_client THEN McpStart
  ELSE [mcp_stored(planned, out, calls_made(planned, out)) EXCEPT
          !.raised = \E k \in 1..Len(planned) : out[planned[k].site] = "raise"]

(***************************************************************************)
(* State                                                                   *)
(***************************************************************************)
VARIABLES
  pending_context,   \* FollowUpManager.pending_context: dict session -> record
  response_cache,    \* JioOrchestrator.response_cache: dict key -> (response, time)
  metrics,           \* JioOrchestrator.metrics
  rag_system,        \* FALSE when _init_subsystems left rag_system None
  mcp_client,        \* FALSE when _init_subsystems left mcp_client None
  now,               \* time.time(), in seconds
  calls,             \* number of operations performed so far
  last,              \* the most recent operation: its inputs, result and trace
  last_type,         \* per session, the type of the most recent result returned
  session_contexts,  \* app.py session_contexts: dict session -> record
  request,           \* app.py: the JSON body of the most recent request handled
  conversation_history,  \* app.py conversation_history: session -> number of messages
  threads            \* requests inside orchestrate_with_followup: position and locals

vars ==
  <<pending_context, response_cache, metrics, rag_system, mcp_client, now,
    calls, last, last_type, session_contexts, request, conversation_history,
    threads>>

\* self.cache_ttl
cache_ttl == 300

\* bounds of the model
MaxCalls == 3

MaxTime == 300

AllSessions == {"s1", "s2"}

auto == <<"a","u","t","o">>

StrategyKeys ==
  { <<"d","i","r","e","c","t">>, <<"r","a","g","_","m","c","p">>, <<"s","e","q","u","e","n","t","i","a","l">>, <<"h","i","e","r","a","r","c","h","i","c","a","l">>, <<"p","a","r","a","l","l","e","l">>,
    <<"c","o","n","s","e","n","s","u","s">> }

\* the counters of self.metrics other than strategy_usage
CounterNames ==
  {"total_queries", "successful_orchestrations", "failed_orchestrations",
   "direct_responses", "follow_up_questions", "rag_usage", "mcp_usage",
   "cache_hits"}

InitMetrics ==
  [total_queries |-> 0, successful_orchestrations |-> 0,
   failed_orchestrations |-> 0, direct_responses |-> 0,
   follow_up_questions |-> 0, rag_usage |-> 0, mcp_usage |-> 0,
   cache_hits |-> 0, strategy_usage |-> [k \in StrategyKeys |-> 0]]

(***************************************************************************)
(* Results                                                                 *)
(***************************************************************************)
\* A result dict, flattened.  Keys a result does not carry hold the neutral
\* value of their type: "None", << >>, FALSE, or -1 for agents_used.
NoResult ==
  [success |-> FALSE, response |-> "None", error |-> "None", type |-> "None",
   waiting_for |-> "None", original_query |-> << >>, session_id |-> "None",
   strategy |-> << >>, agents_used |-> -1, complexity |-> "None",
   rag_used |-> FALSE, mcp_used |-> FALSE, mcp_tools_called |-> << >>,
   cached |-> FALSE, timestamp |-> -1]

\* what a call did besides returning: cache access, classification,
\* collaborator calls
NoTrace ==
  [cache_read |-> FALSE, cache_hit |-> FALSE, cache_written |-> FALSE,
   complexity |-> "None", rag_called |-> FALSE, tool_calls |-> << >>,
   pipeline |-> << >>, gen_called |-> FALSE]

\* the follow_up-typed result of orchestrate_with_followup
follow_up_result(question, context_type, query, session_id, time) ==
  [NoResult EXCEPT !.success = TRUE, !.response = question,
                   !.type = "follow_up", !.waiting_for = context_type,
                   !.original_query = query, !.session_id = session_id,
                   !.timestamp = time]

\* the result of the direct branch of orchestrate
direct_result(response, complexity, time) ==
  [NoResult EXCEPT !.success = TRUE, !.response = response,
                   !.strategy = <<"d","i","r","e","c","t">>, !.agents_used = 0,
                   !.complexity = complexity, !.timestamp = time]

\* the result of a successful generation dispatch
full_result(text, strategy, complexity, rag_context, keys, time) ==
  [NoResult EXCEPT !.success = TRUE, !.response = text, !.strategy = strategy,
                   !.agents_used = 1, !.complexity = complexity,
                   !.rag_used = (rag_context # ""),
                   !.mcp_used = (keys # << >>),
                   !.mcp_tools_called = keys, !.timestamp = time]

\* an except branch that attaches the error and no response
failed_result_without_text(strategy, complexity, time) ==
  [NoResult EXCEPT !.error = "gen_error", !.strategy = strategy,
                   !.complexity = complexity, !.timestamp = time]

\* the result of the except branch: fallback text, error attached
failed_result(strategy, complexity, time) ==
  [NoResult EXCEPT !.response = "FALLBACK", !.error = "gen_error",
                   !.strategy = strategy, !.complexity = complexity,
                   !.timestamp = time]

(***************************************************************************)
(* JioOrchestrator.orchestrate                                             *)
(***************************************************************************)
\* JioOrchestrator._get_rag_context; outcome is what the retrieval
\* collaborator does: "text", "empty" or "raise"
get_rag_context(rag, outcome) ==
  IF ~rag THEN [context |-> "", usage |-> 0, called |-> FALSE]
  ELSE IF outcome = "raise" THEN [context |-> "", usage |-> 0, called |-> TRUE]
  ELSE [context |-> IF outcome = "text" THEN "rag_text" ELSE "",
        usage |-> 1, called |-> TRUE]

\* the generation pipeline the dispatch of orchestrate selects
pipeline_of(strategy) ==
  IF strategy \in { <<"s","e","q","u","e","n","t","i","a","l">>, <<"h","i","e","r","a","r","c","h","i","c","a","l">>, <<"p","a","r","a","l","l","e","l">>, <<"c","o","n","s","e","n","s","u","s">> }
  THEN strategy
  ELSE <<"s","e","q","u","e","n","t","i","a","l">>

\* f"{query}:{strategy}"
cache_key_of(query, strategy) == query \o <<":">> \o strategy

cache_put(cache, key, response, time) ==
  [k \in DOMAIN cache \cup {key} |->
     IF k = key THEN [response |-> response, time |-> time] ELSE cache[k]]

\* a freshness test with the comparison inverted
cache_fresh_inverted(cache, key, time) ==
  key \in DOMAIN cache /\ time - cache[key].time > cache_ttl

\* a freshness test that still serves an entry whose age equals the TTL
cache_fresh_at_ttl(cache, key, time) ==
  key \in DOMAIN cache /\ time - cache[key].time <= cache_ttl

\* is the entry under key still served at this time
cache_fresh(cache, key, time) ==
  key \in DOMAIN cache /\ time - cache[key].time < cache_ttl

\* the strategy_usage bookkeeping of orchestrate
track_strategy(usage, has_context, strategy) ==
  IF has_context THEN [usage EXCEPT ![ <<"r","a","g","_","m","c","p">> ] = @ + 1]
  ELSE IF strategy \in DOMAIN usage THEN [usage EXCEPT ![strategy] = @ + 1]
  ELSE usage

\* a cache-hit return that leaves cache_hits as it was
orchestrate_hit_uncounted(cache, m0, cache_key) ==
  [cache |-> [cache EXCEPT ![cache_key].response.cached = TRUE],
   metrics |-> m0,
   result |-> [cache[cache_key].response EXCEPT !.cached = TRUE],
   trace |-> [NoTrace EXCEPT !.cache_read = TRUE, !.cache_hit = TRUE]]

\* the cache-hit return of orchestrate: the stored dict itself is flagged
\* and returned
orchestrate_hit(cache, m0, cache_key) ==
  [cache |-> [cache EXCEPT ![cache_key].response.cached = TRUE],
   metrics |-> [m0 EXCEPT !.cache_hits = @ + 1],
   result |-> [cache[cache_key].response EXCEPT !.cached = TRUE],
   trace |-> [NoTrace EXCEPT !.cache_read = TRUE, !.cache_hit = TRUE]]

\* the direct branch of orchestrate
orchestrate_direct(cache, m0, time, cache_key, skip_cache, a) ==
  [cache |-> IF skip_cache THEN cache
             ELSE cache_put(cache, cache_key,
                            direct_result(a.direct, a.complexity, time), time),
   metrics |-> [m0 EXCEPT !.direct_responses = @ + 1,
                          !.strategy_usage[ <<"d","i","r","e","c","t">> ] = @ + 1],
   result |-> direct_result(a.direct, a.complexity, time),
   trace |-> [NoTrace EXCEPT !.cache_read = ~skip_cache,
                             !.cache_written = ~skip_cache,
                             !.complexity = a.complexity]]

\* a dispatch that stores whatever it returns, the failure included
orchestrate_dispatch_storing_failures(cache, m1, time, cache_key, skip_cache, complexity, chosen, rag_got, mcp_got, gen) ==
  [cache |-> IF skip_cache THEN cache
             ELSE cache_put(cache, cache_key,
                            IF gen = "raise"
                            THEN failed_result(chosen, complexity, time)
                            ELSE full_result(gen, chosen, complexity,
                                             rag_got.context, mcp_got.keys, time),
                            time),
   metrics |-> IF gen = "raise"
               THEN [m1 EXCEPT !.failed_orchestrations = @ + 1]
               ELSE [m1 EXCEPT !.successful_orchestrations = @ + 1],
   result |-> IF gen = "raise"
              THEN failed_result(chosen, complexity, time)
              ELSE full_result(gen, chosen, complexity, rag_got.context,
                               mcp_got.keys, time),
   trace |-> [NoTrace EXCEPT !.cache_read = ~skip_cache,
                             !.cache_written = ~skip_cache,
                             !.complexity = complexity,
                             !.rag_called = rag_got.called,
                             !.tool_calls = mcp_got.calls,
                             !.pipeline = pipeline_of(chosen),
                             !.gen_called = TRUE]]

\* the try block of orchestrate: dispatch to a generation pipeline; gen is
\* the text the pipeline returns, or "raise"
orchestrate_dispatch(cache, m1, time, cache_key, skip_cache, complexity, chosen, rag_got, mcp_got, gen) ==
  [cache |-> IF skip_cache \/ gen = "raise" THEN cache
             ELSE cache_put(cache, cache_key,
                            full_result(gen, chosen, complexity, rag_got.context,
                                        mcp_got.keys, time), time),
   metrics |-> IF gen = "raise"
               THEN [m1 EXCEPT !.failed_orchestrations = @ + 1]
               ELSE [m1 EXCEPT !.successful_orchestrations = @ + 1],
   result |-> IF gen = "raise"
              THEN failed_result(chosen, complexity, time)
              ELSE full_result(gen, chosen, complexity, rag_got.context,
                               mcp_got.keys, time),
   trace |-> [NoTrace EXCEPT !.cache_read = ~skip_cache,
                             !.cache_written = ~skip_cache /\ gen # "raise",
                             !.complexity = complexity,
                             !.rag_called = rag_got.called,
                             !.tool_calls = mcp_got.calls,
                             !.pipeline = pipeline_of(chosen),
                             !.gen_called = TRUE]]

\* orchestrate from the context gathering on: rag_got and mcp_got are what
\* _get_rag_context and _get_mcp_data returned
orchestrate_gathered(cache, m0, time, cache_key, skip_cache, complexity, chosen, rag_got, mcp_got, gen) ==
  orchestrate_dispatch(
    cache,
    [m0 EXCEPT !.rag_usage = @ + rag_got.usage,
               !.mcp_usage = @ + mcp_got.usage,
               !.strategy_usage =
                   track_strategy(@, rag_got.context # "" \/ mcp_got.keys # << >>,
                                  chosen)],
    time, cache_key, skip_cache, complexity, chosen, rag_got, mcp_got, gen)

\* orchestrate after a cache miss; a is the analysis of the query
orchestrate_miss(cache, m0, rag, mcp, time, cache_key, strategy, force_tools, skip_cache, env, a) ==
  IF a.complexity = "simple" /\ ~force_tools /\ a.direct # "None"
  THEN orchestrate_direct(cache, m0, time, cache_key, skip_cache, a)
  ELSE orchestrate_gathered(
         cache, m0, time, cache_key, skip_cache, a.complexity,
         IF strategy = auto THEN a.auto_strategy ELSE strategy,
         IF a.complexity # "simple" \/ force_tools
         THEN get_rag_context(rag, env.rag)
         ELSE [context |-> "", usage |-> 0, called |-> FALSE],
         IF a.complexity # "simple" \/ force_tools
         THEN get_mcp_data(mcp, a.planned, env.mcp)
         ELSE McpStart,
         env.gen)

\* JioOrchestrator.orchestrate on the state (cache, m) at the given time.
\* env.rag, env.mcp and env.gen say what the collaborators do in this call.
\* The value is the new cache and metrics, the result returned and a trace
\* of what the call did.
orchestrate(cache, m, rag, mcp, time, query, strategy, force_tools, skip_cache, env) ==
  IF ~skip_cache /\ cache_fresh(cache, cache_key_of(query, strategy), time)
  THEN orchestrate_hit(cache, [m EXCEPT !.total_queries = @ + 1],
                       cache_key_of(query, strategy))
  ELSE orchestrate_miss(cache, [m EXCEPT !.total_queries = @ + 1], rag, mcp, time,
                        cache_key_of(query, strategy), strategy, force_tools,
                        skip_cache, env, analysis(query))

(***************************************************************************)
(* Operations                                                              *)
(***************************************************************************)
\* no record under get_context(session_id)
NoContext == [original_query |-> << >>, context_type |-> "None", timestamp |-> -1]

\* The record of the most recent operation: its arguments, the pending
\* record it found, the query it handed to orchestrate, what it returned and
\* what it did.
NoCall ==
  [op |-> "init", session_id |-> "None", query |-> << >>, strategy |-> << >>,
   force_tools |-> FALSE, skip_cache |-> FALSE, had_context |-> FALSE,
   context |-> NoContext,
   orchestrated |-> FALSE, processed |-> << >>, result |-> NoResult,
   trace |-> NoTrace, time |-> 0]

\* no request has been handled by app.py
NoRequest ==
  [route |-> "none", message |-> << >>, session_id |-> "None",
   strategy |-> << >>, force_tools |-> FALSE, skip_cache |-> FALSE,
   max_age_seconds |-> -1]

\* the requests that may be inside orchestrate_with_followup together
Threads == {"t1", "t2"}

\* a thread that is not inside orchestrate_with_followup
IdleThread ==
  [pc |-> "idle", call |-> NoCall, enhanced_query |-> << >>]

Init ==
  /\ pending_context = << >>
  /\ response_cache = << >>
  /\ metrics = InitMetrics
  /\ rag_system \in BOOLEAN
  /\ mcp_client \in BOOLEAN
  /\ now = 0
  /\ calls = 0
  /\ last = NoCall
  /\ last_type = [s \in AllSessions |-> "none"]
  /\ session_contexts = << >>
  /\ request = NoRequest
  /\ conversation_history = << >>
  /\ threads = [t \in Threads |-> IdleThread]

\* the collaborator behaviours of one call
Envs(rag_outs, mcp_outs, gen_outs) ==
  [rag : rag_outs, mcp : {[c \in CallSites |-> o] : o \in mcp_outs}, gen : gen_outs]

\* collaborator behaviours where each call site of the aggregator succeeds
\* or raises on its own
SiteEnvs(rag_outs, gen_outs) ==
  [rag : rag_outs, mcp : [CallSites -> {"ok", "raise"}], gen : gen_outs]

\* a call of self.orchestrate(processed, strategy, ...) and the record of it
Process(call, processed, env) ==
  \E r \in {orchestrate(response_cache, metrics, rag_system, mcp_client, now,
                        processed, call.strategy, call.force_tools,
                        call.skip_cache, env)} :
    /\ response_cache' = r.cache
    /\ metrics' = r.metrics
    /\ last' = [call EXCEPT !.orchestrated = TRUE, !.processed = processed,
                            !.result = r.result, !.trace = r.trace]

\* orchestrate_with_followup when the session has a pending record
AnswerFollowUp(call, env) ==
  /\ pending_context' = clear_context(pending_context, call.session_id)
  /\ Process([call EXCEPT !.had_context = TRUE,
                          !.context = pending_context[call.session_id]],
             merge_with_context(pending_context, call.session_id, call.query), env)
  /\ last_type' = [last_type EXCEPT ![call.session_id] = "other"]

\* orchestrate_with_followup when detection is positive: ask question f
AskFollowUp(call, f, question) ==
  /\ pending_context' = store_context(pending_context, call.session_id, call.query,
                                      f.context_type, now)
  /\ metrics' = [metrics EXCEPT !.follow_up_questions = @ + 1]
  /\ UNCHANGED response_cache
  /\ last' = [call EXCEPT !.result = follow_up_result(question, f.context_type,
                                       call.query, call.session_id, now)]
  /\ last_type' = [last_type EXCEPT ![call.session_id] = "follow_up"]

\* orchestrate_with_followup when there is nothing to clarify
ProcessNormally(call, env) ==
  /\ UNCHANGED pending_context
  /\ Process(call, call.query, env)
  /\ last_type' = [last_type EXCEPT ![call.session_id] = "other"]

\* one call orchestrate_with_followup(query, session_id, strategy) and its
\* effect on the orchestrator
FollowupStep(session_id, query, strategy, envs) ==
  \E call \in {[NoCall EXCEPT !.op = "orchestrate_with_followup",
                              !.session_id = session_id, !.query = query,
                              !.strategy = strategy, !.time = now]} :
    /\ calls < MaxCalls
    /\ calls' = calls + 1
    /\ UNCHANGED <<rag_system, mcp_client, now, threads>>
    /\ IF session_id \in DOMAIN pending_context
       THEN \E env \in envs : AnswerFollowUp(call, env)
       ELSE \E f \in {detection(query)} :
              IF f.needs
              THEN \E question \in f.questions : AskFollowUp(call, f, question)
              ELSE \E env \in envs : ProcessNormally(call, env)

\* JioOrchestrator.orchestrate_with_followup(query, session_id, strategy)
OrchestrateWithFollowup(sessions, queries, strategies, envs) ==
  \E session_id \in sessions, query \in queries, strategy \in strategies :
    /\ FollowupStep(session_id, query, strategy, envs)
    /\ UNCHANGED <<session_contexts, request, conversation_history>>

\* JioOrchestrator.orchestrate called directly (as the /test endpoint does)
Orchestrate(queries, strategies, forces, skips, envs) ==
  \E query \in queries, strategy \in strategies, force_tools \in forces,
     skip_cache \in skips, env \in envs :
    /\ calls < MaxCalls
    /\ calls' = calls + 1
    /\ Process([NoCall EXCEPT !.op = "orchestrate", !.query = query,
                              !.strategy = strategy, !.force_tools = force_tools,
                              !.skip_cache = skip_cache, !.time = now],
               query, env)
    /\ UNCHANGED <<pending_context, rag_system, mcp_client, now, last_type,
                   session_contexts, request,
                   conversation_history, threads>>

\* JioOrchestrator.clear_cache
ClearCache ==
  /\ calls < MaxCalls
  /\ calls' = calls + 1
  /\ response_cache' = << >>
  /\ last' = [NoCall EXCEPT !.op = "clear_cache", !.time = now]
  /\ UNCHANGED <<pending_context, metrics, rag_system, mcp_client, now, last_type,
                 session_contexts, request,
                   conversation_history, threads>>

\* the clock advances between operations
Tick(steps) ==
  \E d \in steps :
    /\ now + d <= MaxTime
    /\ now' = now + d
    /\ UNCHANGED <<pending_context, response_cache, metrics, rag_system,
                   mcp_client, calls, last, last_type, session_contexts, request,
                   conversation_history, threads>>

(***************************************************************************)
(* app.py: the /chat and /cleanup routes, and get_metrics                  *)
(***************************************************************************)
\* the record chat() keeps in session_contexts for a follow_up-typed result
session_context_of(result, time) ==
  [waiting_for |-> result.waiting_for, original_query |-> result.original_query,
   timestamp |-> time]

\* chat(): what becomes of session_contexts after the orchestrator returned
chat_contexts(contexts, session_id, result, time) ==
  IF result.type = "follow_up"
  THEN [s \in DOMAIN contexts \cup {session_id} |->
          IF s = session_id THEN session_context_of(result, time) ELSE contexts[s]]
  ELSE [s \in DOMAIN contexts \ {session_id} |-> contexts[s]]

\* conversation_history after one message is appended to the session's list
appended(history, session_id) ==
  [s \in DOMAIN history \cup {session_id} |->
     IF s = session_id
     THEN (IF s \in DOMAIN history THEN history[s] ELSE 0) + 1
     ELSE history[s]]

\* POST /chat with a session_id, the orchestrator being available.  The
\* body's force_tools and skip_cache are read; the orchestrator is called
\* with the message, the session and the strategy.
Chat(sessions, messages, strategies, forces, skips, envs) ==
  \E session_id \in sessions, message \in messages, strategy \in strategies,
     force_tools \in forces, skip_cache \in skips :
    /\ FollowupStep(session_id, message, strategy, envs)
    /\ request' = [NoRequest EXCEPT !.route = "/chat", !.message = message,
                                    !.session_id = session_id,
                                    !.strategy = strategy,
                                    !.force_tools = force_tools,
                                    !.skip_cache = skip_cache]
    /\ session_contexts' = chat_contexts(session_contexts, session_id,
                                          last'.result, now)
    /\ conversation_history' = appended(appended(conversation_history, session_id),
                                         session_id)

\* the sweep of cleanup_old_sessions over a dict of timestamped records
swept(contexts, current_time, max_age_seconds) ==
  [s \in {t \in DOMAIN contexts :
            ~(current_time - contexts[t].timestamp > max_age_seconds)} |->
     contexts[s]]

\* POST /cleanup
CleanupOldSessions(ages) ==
  \E max_age_seconds \in ages :
    /\ calls < MaxCalls
    /\ calls' = calls + 1
    /\ request' = [NoRequest EXCEPT !.route = "/cleanup",
                                    !.max_age_seconds = max_age_seconds]
    /\ session_contexts' = swept(session_contexts, now, max_age_seconds)
    /\ last' = [NoCall EXCEPT !.op = "cleanup_old_sessions", !.time = now]
    /\ UNCHANGED <<pending_context, response_cache, metrics, rag_system,
                   mcp_client, now, last_type, conversation_history, threads>>

\* (count / total) * 100, kept exact
rate(count, total) == [num |-> count * 100, den |-> total]

\* a get_metrics that starts the counters afresh
get_metrics_reset(m) == InitMetrics

\* JioOrchestrator.get_metrics: the metrics dict, with the six rates written
\* into it when total_queries is positive
get_metrics(m) ==
  IF m.total_queries > 0
  THEN [total_queries |-> m.total_queries,
        successful_orchestrations |-> m.successful_orchestrations,
        failed_orchestrations |-> m.failed_orchestrations,
        direct_responses |-> m.direct_responses,
        follow_up_questions |-> m.follow_up_questions,
        rag_usage |-> m.rag_usage,
        mcp_usage |-> m.mcp_usage,
        cache_hits |-> m.cache_hits,
        strategy_usage |-> m.strategy_usage,
        success_rate |-> rate(m.successful_orchestrations, m.total_queries),
        rag_usage_rate |-> rate(m.rag_usage, m.total_queries),
        mcp_usage_rate |-> rate(m.mcp_usage, m.total_queries),
        cache_hit_rate |-> rate(m.cache_hits, m.total_queries),
        direct_response_rate |-> rate(m.direct_responses, m.total_queries),
        follow_up_rate |-> rate(m.follow_up_questions, m.total_queries)]
  ELSE m

\* a call of JioOrchestrator.get_metrics (GET /metrics, /health, /init)
GetMetrics ==
  /\ calls < MaxCalls
  /\ calls' = calls + 1
  /\ metrics' = get_metrics(metrics)
  /\ last' = [NoCall EXCEPT !.op = "get_metrics", !.time = now]
  /\ UNCHANGED <<pending_context, response_cache, rag_system, mcp_client, now,
                 last_type, session_contexts, request,
                   conversation_history, threads>>

\* words the classifier and the strategy selector tell apart
PureWords ==
  { <<" ","H","e","l","l","o"," ">>, <<"o","k">>, <<"g","o","o","d"," ","m","o","r","n","i","n","g">>, <<"a","l","l">>, <<"c","o","m","p","a","r","e">>,
    <<"p","l","a","n">>, <<"d","e","s","i","g","n">>, <<"n","o","w">>, <<"t","e","a">> }

\* the queries handed to the pure methods: one word, or two
PureQueries ==
  PureWords \cup {v \o <<" ">> \o w : v \in PureWords, w \in PureWords}

\* the complexity argument of _select_strategy; "None" when it is left out
Complexities == {"simple", "medium", "complex", "None"}

\* what the pure methods return for the queries above, computed once
PureTable ==
  {[query |-> q,
    complexity |-> get_query_complexity(q),
    strategy |-> [c \in Complexities |->
                    select_strategy(q, IF c = "None" THEN get_query_complexity(q)
                                       ELSE c)]] : q \in PureQueries}

\* _get_query_complexity(query) called on its own
Classify ==
  \E r \in PureTable :
    /\ calls < MaxCalls
    /\ calls' = calls + 1
    /\ last' = [NoCall EXCEPT !.op = "get_query_complexity", !.query = r.query,
                              !.result.complexity = r.complexity,
                              !.time = now]
    /\ UNCHANGED <<pending_context, response_cache, metrics, rag_system,
                   mcp_client, now, last_type, session_contexts, request,
                   conversation_history, threads>>

\* _select_strategy(query, complexity) called on its own
SelectStrategy ==
  \E r \in PureTable, complexity \in Complexities :
    /\ calls < MaxCalls
    /\ calls' = calls + 1
    /\ last' = [NoCall EXCEPT !.op = "select_strategy", !.query = r.query,
                              !.result.complexity = complexity,
                              !.result.strategy = r.strategy[complexity],
                              !.time = now]
    /\ UNCHANGED <<pending_context, response_cache, metrics, rag_system,
                   mcp_client, now, last_type, session_contexts, request,
                   conversation_history, threads>>

\* words follow-up detection tells apart
DetectWords ==
  { <<"p","l","a","n">>, <<"c","h","e","a","p">>, <<"r","e","c","o","m","m","e","n","d">>, <<"r","e","c","h","a","r","g","e">>, <<"5","g">>, <<"2","9","9">>,
    <<"h","e","l","p">>, <<"t","e","a">>, <<"C","o","m","p","a","r","e">> }

\* the queries handed to needs_follow_up: one word, two, or three
DetectQueries ==
  DetectWords
  \cup {v \o <<" ">> \o w : v \in DetectWords, w \in DetectWords}
  \cup { <<"t","e","a"," ","t","e","a"," ","p","l","a","n">>, <<"m","y"," ","r","e","c","h","a","r","g","e"," ","p","l","a","n">>, <<" ","P","l","a","n","s"," ">> }

\* what needs_follow_up returns for the queries above, computed once
DetectTable ==
  {[query |-> q, detected |-> needs_follow_up(q)] : q \in DetectQueries}

\* FollowUpManager.needs_follow_up(query) called on its own; the question
\* is one of the category's pool
Detect ==
  \E r \in DetectTable :
    \E question \in (IF r.detected.needs THEN r.detected.questions ELSE {"None"}) :
      /\ calls < MaxCalls
      /\ calls' = calls + 1
      /\ last' = [NoCall EXCEPT
                    !.op = "needs_follow_up", !.query = r.query,
                    !.result.type = IF r.detected.needs THEN "follow_up" ELSE "None",
                    !.result.response = question,
                    !.result.waiting_for = r.detected.context_type,
                    !.time = now]
      /\ UNCHANGED <<pending_context, response_cache, metrics, rag_system,
                     mcp_client, now, last_type, session_contexts, request,
                   conversation_history, threads>>

\* a dict without the given key
without(contexts, session_id) ==
  [s \in DOMAIN contexts \ {session_id} |-> contexts[s]]

\* POST /session/<session_id>/clear
ClearSessionContext(sessions) ==
  \E session_id \in sessions :
    /\ calls < MaxCalls
    /\ calls' = calls + 1
    /\ request' = [NoRequest EXCEPT !.route = "/session/clear",
                                    !.session_id = session_id]
    /\ session_contexts' = without(session_contexts, session_id)
    /\ last' = [NoCall EXCEPT
                  !.op = "clear_session_context", !.session_id = session_id,
                  !.result.response = IF session_id \in DOMAIN session_contexts
                                      THEN "cleared" ELSE "no_context",
                  !.time = now]
    /\ UNCHANGED <<pending_context, response_cache, metrics, rag_system,
                   mcp_client, now, last_type, conversation_history, threads>>

\* DELETE /clear-history/<session_id>
ClearHistory(sessions) ==
  \E session_id \in sessions :
    /\ calls < MaxCalls
    /\ calls' = calls + 1
    /\ request' = [NoRequest EXCEPT !.route = "/clear-history",
                                    !.session_id = session_id]
    /\ conversation_history' =
         [s \in DOMAIN conversation_history |->
            IF s = session_id THEN 0 ELSE conversation_history[s]]
    /\ session_contexts' = without(session_contexts, session_id)
    /\ last' = [NoCall EXCEPT
                  !.op = "clear_history", !.session_id = session_id,
                  !.result.response =
                      IF \/ session_id \in DOMAIN conversation_history
                         \/ session_id \in DOMAIN session_contexts
                      THEN "cleared" ELSE "Session not found",
                  !.time = now]
    /\ UNCHANGED <<pending_context, response_cache, metrics, rag_system,
                   mcp_client, now, last_type, threads>>

(***************************************************************************)
(* orchestrate_with_followup, statement by statement.  The server handles  *)
(* requests on threads without a lock, so that the steps of two calls may  *)
(* interleave; the call of orchestrate at the end is taken as one step.    *)
(***************************************************************************)
\* the thread is at the given position of orchestrate_with_followup
at(t, pc) == threads[t].pc = pc

\* the thread moves on to position pc with its locals updated
goto(t, pc, call, enhanced) ==
  threads' = [threads EXCEPT ![t] = [pc |-> pc, call |-> call,
                                     enhanced_query |-> enhanced]]

\* entry, and context = self.followup_manager.get_context(session_id)
ThreadGetContext(sessions, queries, strategies) ==
  \E t \in Threads, session_id \in sessions, query \in queries,
     strategy \in strategies :
    \E call \in {[NoCall EXCEPT !.op = "orchestrate_with_followup",
                                !.session_id = session_id, !.query = query,
                                !.strategy = strategy, !.time = now]} :
      /\ at(t, "idle")
      /\ calls < MaxCalls
      /\ calls' = calls + 1
      /\ IF session_id \in DOMAIN pending_context
         THEN goto(t, "merge",
                   [call EXCEPT !.had_context = TRUE,
                                !.context = pending_context[session_id]], << >>)
         ELSE goto(t, "detect", call, << >>)
      /\ UNCHANGED <<pending_context, response_cache, metrics, rag_system,
                     mcp_client, now, last, last_type, session_contexts, request,
                     conversation_history>>

\* enhanced_query = self.followup_manager.merge_with_context(session_id, query)
ThreadMerge ==
  \E t \in Threads :
    /\ at(t, "merge")
    /\ goto(t, "clear", threads[t].call,
            merge_with_context(pending_context, threads[t].call.session_id,
                               threads[t].call.query))
    /\ UNCHANGED <<pending_context, response_cache, metrics, rag_system,
                   mcp_client, now, calls, last, last_type, session_contexts,
                   request, conversation_history>>

\* self.followup_manager.clear_context(session_id)
ThreadClear ==
  \E t \in Threads :
    /\ at(t, "clear")
    /\ pending_context' = clear_context(pending_context, threads[t].call.session_id)
    /\ goto(t, "orchestrate", threads[t].call, threads[t].enhanced_query)
    /\ UNCHANGED <<response_cache, metrics, rag_system, mcp_client, now, calls,
                   last, last_type, session_contexts, request,
                   conversation_history>>

\* return self.orchestrate(enhanced_query, strategy, verbose)
ThreadOrchestrate(envs) ==
  \E t \in Threads, env \in envs :
    /\ at(t, "orchestrate")
    /\ Process(threads[t].call, threads[t].enhanced_query, env)
    /\ last_type' = [last_type EXCEPT ![threads[t].call.session_id] = "other"]
    /\ goto(t, "idle", NoCall, << >>)
    /\ UNCHANGED <<pending_context, rag_system, mcp_client, now, calls,
                   session_contexts, request, conversation_history>>

\* no record was found: needs_follow_up, then store_context and the
\* question, or orchestrate on the query as sent
ThreadDetect(envs) ==
  \E t \in Threads :
    /\ at(t, "detect")
    /\ \E f \in {detection(threads[t].call.query)} :
         IF f.needs
         THEN \E question \in f.questions : AskFollowUp(threads[t].call, f, question)
         ELSE \E env \in envs : ProcessNormally(threads[t].call, env)
    /\ goto(t, "idle", NoCall, << >>)
    /\ UNCHANGED <<rag_system, mcp_client, now, calls, session_contexts, request,
                   conversation_history>>

(***************************************************************************)
(* Specifications                                                          *)
(***************************************************************************)
\* collaborators that answer, with a generation that may fail
MainEnvs == Envs({"text"}, {"ok"}, {"gen_a", "raise"})

\* one ambiguous message per follow-up category, and a greeting
FollowUpMessages ==
  {q_plan, q_compare, q_5g, q_cheap, q_recommend, q_help, q_hi}

\* The follow-up state machine: orchestrate_with_followup over two sessions.
Next == OrchestrateWithFollowup(AllSessions, FollowUpMessages, {auto}, MainEnvs)

Spec == Init /\ [][Next]_vars

\* ambiguous messages and the answers given to them
MergeMessages ==
  {q_plan, q_compare, q_5g, q_recommend, q_help, a_budget, a_prices, a_city}

\* Question and answer on one session: the merge rules.
MergeNext ==
  OrchestrateWithFollowup({"s1"}, MergeMessages, {auto},
                          Envs({"text"}, {"ok"}, {"gen_a"}))

MergeSpec == Init /\ [][MergeNext]_vars

\* generations that differ from call to call, or fail
CacheEnvs == Envs({"text"}, {"ok"}, {"gen_a", "gen_b", "raise"})

\* The response cache: both entry points on simple queries, with and without
\* force_tools and skip_cache, clear_cache, and time passing.
CacheNext ==
  \/ Orchestrate({q_hi, q_ok}, {auto}, BOOLEAN, BOOLEAN, CacheEnvs)
  \/ OrchestrateWithFollowup({"s1"}, {q_hi, q_hello}, {auto}, CacheEnvs)
  \/ ClearCache
  \/ Tick({cache_ttl \div 2})

CacheSpec == Init /\ [][CacheNext]_vars

\* collaborators any of which may raise
FailEnvs == Envs({"text", "raise"}, {"ok", "raise"}, {"gen_a", "raise"})

\* Failures: both entry points with retrieval, tools and generation that may
\* raise, on queries that use them.
FailNext ==
  \/ OrchestrateWithFollowup({"s1"}, {q_299, q_compare_two, q_cheap}, {auto}, FailEnvs)
  \/ Orchestrate({q_hi, q_compare_now}, {auto}, {TRUE}, {FALSE}, FailEnvs)

FailSpec == Init /\ [][FailNext]_vars

\* tools that find what they are asked for
ToolEnvs == Envs({"text", "empty"}, {"ok"}, {"gen_a"})

\* prices, comparisons and budget words
ToolMessages ==
  {q_299, q_compare_two, q_compare_three, q_compare_now, q_want_cheap, q_cheap}

\* Classification, strategy and the tool bundle of whole requests.
ToolNext == OrchestrateWithFollowup({"s1"}, ToolMessages, {auto}, ToolEnvs)

ToolSpec == Init /\ [][ToolNext]_vars

\* The classifier and the strategy selector as functions of their arguments.
PureNext == Classify \/ SelectStrategy

PureSpec == Init /\ [][PureNext]_vars

\* Expiry: a greeting and a price query asked again as time passes, with and
\* without skip_cache, the generation differing from call to call or failing.
TtlNext ==
  \/ Orchestrate({q_hi, q_299}, {auto}, {FALSE}, BOOLEAN, CacheEnvs)
  \/ Tick({cache_ttl \div 2})

TtlSpec == Init /\ [][TtlNext]_vars

\* generations that differ from call to call
ChatEnvs == Envs({"text"}, {"ok"}, {"gen_a", "gen_b"})

\* The HTTP routes: /chat on one session with and without skip_cache,
\* /cleanup with a threshold below or at the age a record can have, the
\* orchestrator called directly, and time passing.
ChatNext ==
  \/ Chat({"s1"}, {q_hi, q_299, q_cheap}, {auto}, {FALSE}, BOOLEAN, ChatEnvs)
  \/ Orchestrate({q_299}, {auto}, {FALSE}, BOOLEAN, ChatEnvs)
  \/ CleanupOldSessions({100, 150})
  \/ Tick({cache_ttl \div 2})

ChatSpec == Init /\ [][ChatNext]_vars

\* The counters: every operation of the orchestrator that touches or reads
\* the metrics, with a generation that may fail.
MetricsNext ==
  \/ OrchestrateWithFollowup({"s1"}, {q_cheap, q_299, q_hi}, {auto}, MainEnvs)
  \/ Orchestrate({q_hi, q_299}, {auto}, BOOLEAN, {FALSE}, MainEnvs)
  \/ ClearCache
  \/ GetMetrics

MetricsSpec == Init /\ [][MetricsNext]_vars

\* Follow-up detection as a function of the query.
DetectNext == Detect

DetectSpec == Init /\ [][DetectNext]_vars

AggEnvs == SiteEnvs({"text"}, {"gen_a"})

\* Tool aggregation where single collaborator calls raise.
AggNext == Orchestrate({q_six, q_compare_two}, {auto}, {FALSE}, {FALSE}, AggEnvs)

AggSpec == Init /\ [][AggNext]_vars

\* comparisons of prices inside and outside [100, 5000]
CompareMessages ==
  {q_compare_big, q_compare_big_one, q_compare_three, q_compare_two, q_299}

\* Comparison queries handed to orchestrate, with tools that answer.
CompareNext == Orchestrate(CompareMessages, {auto}, {FALSE}, BOOLEAN, ToolEnvs)

CompareSpec == Init /\ [][CompareNext]_vars

\* greetings, acknowledgments and force-tool keywords
KeywordMessages ==
  {q_good_morning, q_goodbye, q_best, q_what, q_which, q_299, q_hi, q_ok}

\* Classification inside orchestrate, with collaborators that answer.
KeywordNext == Orchestrate(KeywordMessages, {auto}, {FALSE}, BOOLEAN, ToolEnvs)

KeywordSpec == Init /\ [][KeywordNext]_vars

\* user types, recommendation words, usage words and a budget
RecommendMessages ==
  {q_student_budget, q_family_heavy, q_suggest, q_six, q_best, q_299}

\* Recommendation queries handed to orchestrate, with tools that answer.
RecommendNext == Orchestrate(RecommendMessages, {auto}, {FALSE}, BOOLEAN, ToolEnvs)

RecommendSpec == Init /\ [][RecommendNext]_vars

\* The cache key: queries and strategy strings with and without a colon.
KeyNext == Orchestrate({q_299, q_colon}, {auto, s_x_auto}, {FALSE}, BOOLEAN, ChatEnvs)

KeySpec == Init /\ [][KeyNext]_vars

\* The hosting layer alone: /chat, /session/<id>/clear, /clear-history/<id>
\* and /cleanup on one session, and time passing.
HostNext ==
  \/ Chat({"s1"}, {q_cheap, q_299, q_hi}, {auto}, {FALSE}, {FALSE}, ChatEnvs)
  \/ ClearSessionContext({"s1"})
  \/ ClearHistory({"s1"})
  \/ CleanupOldSessions({100})
  \/ Tick({cache_ttl \div 2})

HostSpec == Init /\ [][HostNext]_vars

\* Two requests of one session inside orchestrate_with_followup at once: a
\* vague request and two answers.
RaceNext ==
  \/ ThreadGetContext({"s1"}, {q_help, a_city, a_prices}, {auto})
  \/ ThreadMerge
  \/ ThreadClear
  \/ ThreadOrchestrate(Envs({"text"}, {"ok"}, {"gen_a"}))
  \/ ThreadDetect(Envs({"text"}, {"ok"}, {"gen_a"}))

RaceSpec == Init /\ [][RaceNext]_vars
(***************************************************************************)
(* Properties                                                              *)
(***************************************************************************)
\* the step is a call of orchestrate_with_followup for session s
FollowupCallFor(s) ==
  /\ calls' = calls + 1
  /\ last'.op = "orchestrate_with_followup"
  /\ last'.session_id = s

ContextTypes ==
  {"plan_recommendation", "comparison", "5g_check", "budget_plan",
   "recommendation", "general_help"}

\* C1: whenever a session has a pending follow-up record, the next
\* orchestrate_with_followup call for that session, whatever its message,
\* leaves the session without a pending record and returns a result that is
\* not follow_up-typed; so a session whose most recent result was a clarifying
\* question never receives a second one in a row.
C1_PendingConsumed ==
  [][\A s \in AllSessions :
       /\ (s \in DOMAIN pending_context /\ FollowupCallFor(s))
            => /\ s \notin DOMAIN pending_context'
               /\ last'.had_context
               /\ last'.orchestrated
               /\ last'.result.type # "follow_up"
       /\ (last_type[s] = "follow_up" /\ FollowupCallFor(s))
            => last_type'[s] # "follow_up"]_vars

\* a pending "plan" was answered by the message "plan", itself ambiguous, and
\* the session is clear again
C1_Witness ==
  /\ last.op = "orchestrate_with_followup"
  /\ last.had_context
  /\ last.context.original_query = q_plan
  /\ last.query = q_plan
  /\ detection(last.query).needs
  /\ last.session_id \notin DOMAIN pending_context
  /\ last.result.type # "follow_up"

\* C2: a call of orchestrate_with_followup for a session without a pending
\* record, with a query for which detection is positive, stores a record
\* holding that raw query and the detected context_type, adds exactly one to
\* follow_up_questions, returns a follow_up-typed result carrying that
\* context_type, makes no retrieval, tool or generation call and neither
\* reads nor writes the response cache.
C2_AskStoresAndReturns ==
  [][\A s \in AllSessions :
       (/\ s \notin DOMAIN pending_context
        /\ FollowupCallFor(s)
        /\ detection(last'.query).needs)
       => /\ s \in DOMAIN pending_context'
          /\ pending_context'[s].original_query = last'.query
          /\ pending_context'[s].context_type = detection(last'.query).context_type
          /\ \A t \in DOMAIN pending_context : pending_context'[t] = pending_context[t]
          /\ metrics' = [metrics EXCEPT !.follow_up_questions = @ + 1]
          /\ last'.result.success
          /\ last'.result.type = "follow_up"
          /\ last'.result.waiting_for = detection(last'.query).context_type
          /\ last'.result.response \in detection(last'.query).questions
          /\ last'.result.original_query = last'.query
          /\ ~last'.orchestrated
          /\ last'.trace = NoTrace
          /\ response_cache' = response_cache]_vars

\* the second clarifying question asked in a run: "compare" on a clear
\* session, stored with context_type comparison
C2_Witness ==
  /\ last.op = "orchestrate_with_followup"
  /\ last.query = q_compare
  /\ ~last.had_context
  /\ last.result.type = "follow_up"
  /\ last.result.waiting_for = "comparison"
  /\ last.session_id \in DOMAIN pending_context
  /\ pending_context[last.session_id].original_query = q_compare
  /\ metrics.follow_up_questions = 2
  /\ metrics.total_queries = 0

\* C3: in every state reached by orchestrate_with_followup calls over the
\* sessions, each session has at most one pending record (pending_context is
\* a mapping on sessions), its context_type is one of the six, and a session
\* has a pending record exactly when the most recent result returned for it
\* was follow_up-typed.
C3_PendingInvariant ==
  /\ DOMAIN pending_context \subseteq AllSessions
  /\ \A s \in DOMAIN pending_context :
       /\ pending_context[s].context_type \in ContextTypes
       /\ detection(pending_context[s].original_query).needs
  /\ \A s \in AllSessions :
       (s \in DOMAIN pending_context) <=> (last_type[s] = "follow_up")

\* one session waits for an answer while the other has had its answer
\* processed
C3_Witness ==
  /\ "s1" \in DOMAIN pending_context
  /\ pending_context["s1"].context_type = "budget_plan"
  /\ "s2" \notin DOMAIN pending_context
  /\ last_type["s2"] = "other"
  /\ last.session_id = "s2"
  /\ last.had_context

\* the rupee sign of a merged query: U+20B9, or the three characters
\* orchestrator.py writes for it
RupeeSpellings == { <<"Rs">>, <<"a^","q,","^1">> }

\* C4: for a pending record of context_type plan_recommendation the merged
\* query is "Recommend best {user_type} plan under (rupee){budget} with
\* {usage} daily data" with budget the first 3-4-digit number of the answer
\* (500 if it has none); the pending query "plan" answered by
\* "under 300, student" gives a merged query containing "student" and "300".
C4_PlanMerge ==
  (last.had_context /\ last.context.context_type = "plan_recommendation")
  => /\ \E rupee \in RupeeSpellings :
          last.processed =
            <<"R","e","c","o","m","m","e","n","d"," ","b","e","s","t"," ">> \o merge_user_type(last.query) \o <<" ","p","l","a","n"," ","u","n","d","e","r"," ">>
              \o rupee
              \o (IF findall_digits(last.query) # << >>
                  THEN findall_digits(last.query)[1] ELSE <<"5","0","0">>)
              \o <<" ","w","i","t","h"," ">> \o merge_usage(last.query) \o <<" ","d","a","i","l","y"," ","d","a","t","a">>
     /\ (last.context.original_query = q_plan /\ last.query = a_budget)
          => /\ contains(last.processed, <<"s","t","u","d","e","n","t">>)
             /\ contains(last.processed, <<"3","0","0">>)

\* C5: the query "compare" alone draws a follow-up of context_type
\* comparison; for a pending comparison record an answer with at least two
\* 3-4-digit numbers merges to "Compare (rupee){first} vs (rupee){second}
\* plans", any other answer to "Compare plans: {raw answer}"; so "299 and
\* 399" merges to "Compare (rupee)299 vs (rupee)399 plans".
C5_CompareMerge ==
  /\ (last.op = "orchestrate_with_followup" /\ ~last.had_context
        /\ last.query = q_compare)
       => (last.result.type = "follow_up" /\ last.result.waiting_for = "comparison")
  /\ (last.had_context /\ last.context.context_type = "comparison")
       => IF Len(findall_digits(last.query)) >= 2
          THEN \E rupee \in RupeeSpellings :
                 last.processed =
                   <<"C","o","m","p","a","r","e"," ">> \o rupee \o findall_digits(last.query)[1]
                     \o <<" ","v","s"," ">> \o rupee \o findall_digits(last.query)[2]
                     \o <<" ","p","l","a","n","s">>
          ELSE last.processed = <<"C","o","m","p","a","r","e"," ","p","l","a","n","s",":"," ">> \o last.query

\* C6: the query "5g" alone on a session without a pending record draws a
\* follow-up of context_type 5g_check, and whatever message answers it, the
\* next call on the session processes "Check 5G availability in {answer}"
\* with the answer inserted verbatim.
C6_FiveGMerge ==
  /\ (last.op = "orchestrate_with_followup" /\ ~last.had_context
        /\ last.query = q_5g)
       => /\ last.result.type = "follow_up"
          /\ last.result.waiting_for = "5g_check"
          /\ last.session_id \in DOMAIN pending_context
          /\ pending_context[last.session_id].context_type = "5g_check"
  /\ (last.had_context /\ last.context.context_type = "5g_check")
       => /\ last.orchestrated
          /\ last.processed = <<"C","h","e","c","k"," ","5","G"," ","a","v","a","i","l","a","b","i","l","i","t","y"," ","i","n"," ">> \o last.query

\* "5g" was answered by " Mumbai ", spaces and capital kept
C6_Witness ==
  /\ last.had_context
  /\ last.context.original_query = q_5g
  /\ last.context.context_type = "5g_check"
  /\ last.query = a_city
  /\ last.processed = <<"C","h","e","c","k"," ","5","G"," ","a","v","a","i","l","a","b","i","l","i","t","y"," ","i","n"," "," ","M","u","m","b","a","i"," ">>

\* C7: for a pending record of context_type recommendation or general_help
\* the merged query is exactly "{original_query} - {raw answer}", so the
\* stored query text is part of the query processed; and for every
\* context_type and every answer the merge returns a query, which is
\* processed.
C7_GenericMerge ==
  /\ (last.had_context
        /\ last.context.context_type \in {"recommendation", "general_help"})
       => /\ last.processed = last.context.original_query \o <<" ","-"," ">> \o last.query
          /\ occurs_at(last.processed, last.context.original_query, 1)
  /\ last.had_context
       => /\ last.context.context_type \in ContextTypes
          /\ last.orchestrated
          /\ last.processed = enhanced_query(last.context, last.query)
          /\ last.processed # << >>

\* "help" was answered by "under 300, student"
C7_Witness ==
  /\ last.had_context
  /\ last.context.context_type = "general_help"
  /\ last.context.original_query = q_help
  /\ last.query = a_budget
  /\ last.processed = <<"h","e","l","p"," ","-"," ","u","n","d","e","r"," ","3","0","0",","," ","s","t","u","d","e","n","t">>

\* the step calls the orchestrator with the query and strategy of the call
\* before it, on a session without a pending record both times, less than
\* cache_ttl after the earlier response was produced
SameCallAgain ==
  /\ calls' = calls + 1
  /\ last.orchestrated /\ ~last.had_context
  /\ last'.orchestrated /\ ~last'.had_context
  /\ last'.query = last.query
  /\ last'.strategy = last.strategy
  /\ now - last.result.timestamp < cache_ttl

\* the step returns the response of the call before it, flagged cached, and
\* calls no collaborator
ServedFromCache ==
  /\ last'.result = [last.result EXCEPT !.cached = TRUE]
  /\ last'.trace.cache_hit
  /\ ~last'.trace.rag_called
  /\ last'.trace.tool_calls = << >>
  /\ ~last'.trace.gen_called

\* C8 as stated: two calls with the same (query, strategy), the second
\* before the cache TTL expires: the second returns the first's response with
\* cached = true and calls no collaborator.
C8_Original == [][SameCallAgain => ServedFromCache]_vars

\* C8, amended: the same, when the first call returned success = true and
\* neither call set skip_cache.
C8_Amended ==
  [][(SameCallAgain /\ last.result.success /\ ~last.skip_cache
        /\ ~last'.skip_cache)
     => ServedFromCache]_vars

\* a generated response is served from the cache some time after it was
\* stored
C8_Witness ==
  /\ last.orchestrated
  /\ ~last.skip_cache
  /\ last.trace.cache_hit
  /\ last.result.cached
  /\ last.result.agents_used = 1
  /\ last.result.timestamp < last.time

\* C9: for every query classified simple, with force_tools false,
\* orchestrate returns one of the three canned replies with strategy direct
\* and agents_used 0, calls no collaborator and (unless skip_cache is set)
\* leaves the result in the cache.
C9_SimpleIsCanned ==
  (/\ last.orchestrated
   /\ ~last.force_tools
   /\ get_query_complexity(last.processed) = "simple")
  => /\ last.result.response \in {"GREETING", "THANKS", "GOODBYE"}
     /\ last.result.strategy = <<"d","i","r","e","c","t">>
     /\ last.result.agents_used = 0
     /\ ~last.trace.rag_called
     /\ last.trace.tool_calls = << >>
     /\ ~last.trace.gen_called
     /\ ~last.skip_cache
          => cache_key_of(last.processed, last.strategy) \in DOMAIN response_cache

\* C10: for every query whose trimmed, lower-cased text is a member of the
\* greeting set, classification is simple, detection is negative and the
\* orchestrator (force_tools false) returns the canned greeting with
\* agents_used 0, rag_used false and mcp_used false.
C10_GreetingIsCanned ==
  (/\ last.orchestrated
   /\ ~last.had_context
   /\ ~last.force_tools
   /\ is_member(greetings, strip(lower(last.query))))
  => /\ get_query_complexity(last.query) = "simple"
     /\ ~needs_follow_up(last.query).needs
     /\ last.result.response = "GREETING"
     /\ last.result.agents_used = 0
     /\ ~last.result.rag_used
     /\ ~last.result.mcp_used

\* the step is a call of either entry point of the orchestrator
EntryPointCall ==
  /\ calls' = calls + 1
  /\ last'.op \in {"orchestrate", "orchestrate_with_followup"}

\* the step ran the generation dispatch and it raised
DispatchRaised ==
  /\ EntryPointCall
  /\ last'.trace.gen_called
  /\ last'.result.error # "None"

\* C11: when the generation dispatch of orchestrate raises, the call returns
\* success = false with the fallback text and the error attached,
\* failed_orchestrations grows by exactly one and successful_orchestrations
\* is unchanged; and every call of orchestrate or orchestrate_with_followup,
\* whatever the retrieval, tool and generation collaborators do, returns a
\* result with a response.
C11_FailureIsFallback ==
  [][/\ DispatchRaised
        => /\ ~last'.result.success
           /\ last'.result.response = "FALLBACK"
           /\ last'.result.error = "gen_error"
           /\ metrics'.failed_orchestrations = metrics.failed_orchestrations + 1
           /\ metrics'.successful_orchestrations = metrics.successful_orchestrations
           /\ response_cache' = response_cache
     /\ EntryPointCall
        => /\ last'.result # NoResult
           /\ last'.result.response # "None"
           /\ (last'.result.success <=> last'.result.error = "None")
           /\ (last'.trace.gen_called /\ last'.result.success)
                => /\ metrics'.successful_orchestrations
                        = metrics.successful_orchestrations + 1
                   /\ metrics'.failed_orchestrations = metrics.failed_orchestrations]_vars

\* retrieval raised, the first tool call raised and generation raised in one
\* call, which returned the fallback
C11_Witness ==
  /\ last.orchestrated
  /\ last.trace.rag_called
  /\ ~last.result.rag_used
  /\ Len(last.trace.tool_calls) = 1
  /\ Len(analysis(last.processed).planned) > 1
  /\ last.trace.gen_called
  /\ ~last.result.success
  /\ last.result.response = "FALLBACK"
  /\ metrics.failed_orchestrations = 1
  /\ metrics.successful_orchestrations = 0

\* the call handed orchestrate, with strategy auto, a query that contains
\* "compare" and at least two numbers of 3 or 4 digits
ComparesTwoPrices ==
  /\ last.orchestrated
  /\ last.strategy = auto
  /\ contains(lower(last.processed), <<"c","o","m","p","a","r","e">>)
  /\ Len(findall_digits(last.processed)) >= 2

\* the compare_plans calls of the last call
compare_plans_calls ==
  {i \in 1..Len(last.trace.tool_calls) :
     last.trace.tool_calls[i].tool = "compare_plans"}

\* the strategy is consensus, and a comparison entry in the bundle comes from
\* the one compare_plans call, made on the first two numbers in order
ConsensusOnFirstTwo ==
  /\ last.result.strategy = <<"c","o","n","s","e","n","s","u","s">>
  /\ (~last.trace.cache_hit /\ mcp_client)
       => /\ Cardinality(compare_plans_calls) = 1
          /\ \A i \in compare_plans_calls :
               last.trace.tool_calls[i].args
                 = << findall_digits(last.processed)[1],
                      findall_digits(last.processed)[2] >>
  /\ (~last.trace.cache_hit
        /\ is_member(last.result.mcp_tools_called, <<"c","o","m","p","a","r","i","s","o","n">>))
       => compare_plans_calls # {}

Strategies ==
  { <<"d","i","r","e","c","t">>, <<"p","a","r","a","l","l","e","l">>, <<"c","o","n","s","e","n","s","u","s">>, <<"h","i","e","r","a","r","c","h","i","c","a","l">>, <<"s","e","q","u","e","n","t","i","a","l">> }

\* the terms of the three rules, as the claim lists them
UrgencyTerms ==
  << <<"u","r","g","e","n","t">>, <<"a","s","a","p">>, <<"i","m","m","e","d","i","a","t","e","l","y">>, <<"n","o","w">>, <<"q","u","i","c","k">> >>

ComparisonTerms ==
  << <<"c","o","m","p","a","r","e">>, <<"v","e","r","s","u","s">>, <<"v","s">>, <<"w","h","i","c","h"," ","i","s"," ","b","e","t","t","e","r">>, <<"d","i","f","f","e","r","e","n","c","e">> >>

BundlingTerms ==
  << <<"c","o","m","p","l","e","t","e"," ","s","o","l","u","t","i","o","n">>, <<"b","u","n","d","l","e">>, <<"f","a","m","i","l","y"," ","p","l","a","n">>, <<"d","e","s","i","g","n">>,
     <<"m","u","l","t","i","p","l","e">>, <<"e","v","e","r","y","t","h","i","n","g">> >>

\* the strategy the ordered rules give a query of the given complexity
FirstMatch(query, complexity) ==
  IF complexity = "simple" THEN <<"d","i","r","e","c","t">>
  ELSE IF any_in(UrgencyTerms, lower(query)) THEN <<"p","a","r","a","l","l","e","l">>
  ELSE IF any_in(ComparisonTerms, lower(query)) THEN <<"c","o","n","s","e","n","s","u","s">>
  ELSE IF any_in(BundlingTerms, lower(query)) THEN <<"h","i","e","r","a","r","c","h","i","c","a","l">>
  ELSE <<"s","e","q","u","e","n","t","i","a","l">>

\* C13: _select_strategy returns the strategy of the first rule that
\* matches, in the order simple, urgency, comparison, bundling, default, and
\* always one of the five strategies.
C13_FirstMatchWins ==
  last.op = "select_strategy"
  => /\ last.result.strategy \in Strategies
     /\ last.result.complexity # "None"
          => last.result.strategy = FirstMatch(last.query, last.result.complexity)
     /\ last.result.complexity = "None"
          => last.result.strategy
               = FirstMatch(last.query, get_query_complexity(last.query))

\* "compare now" holds an urgency term and a comparison term: parallel
C13_Witness ==
  /\ last.op = "select_strategy"
  /\ last.query = <<"c","o","m","p","a","r","e"," ","n","o","w">>
  /\ last.result.complexity = "complex"
  /\ last.result.strategy = <<"p","a","r","a","l","l","e","l">>

\* the greeting set and the acknowledgment set
GreetingSet ==
  { <<"h","i">>, <<"h","e","l","l","o">>, <<"h","e","y">>, <<"n","a","m","a","s","t","e">>, <<"g","o","o","d"," ","m","o","r","n","i","n","g">>, <<"g","o","o","d"," ","e","v","e","n","i","n","g">> }

AcknowledgmentSet ==
  { <<"t","h","a","n","k","s">>, <<"t","h","a","n","k"," ","y","o","u">>, <<"b","y","e">>, <<"g","o","o","d","b","y","e">>, <<"o","k">>, <<"o","k","a","y">> }

\* the comparison and aggregation terms
AggregationTerms ==
  << <<"c","o","m","p","a","r","e">>, <<"v","e","r","s","u","s">>, <<"v","s">>, <<"c","a","l","c","u","l","a","t","e">>, <<"d","e","s","i","g","n">>, <<"b","u","n","d","l","e">>,
     <<"c","o","m","p","l","e","t","e"," ","s","o","l","u","t","i","o","n">>, <<"m","u","l","t","i","p","l","e">>, <<"a","l","l">> >>

\* C14: _get_query_complexity returns simple only for a query whose trimmed,
\* lower-cased text is a greeting or an acknowledgment; for every other query
\* it returns complex exactly when the query contains a force-tool keyword
\* and an aggregation term, and medium otherwise.
C14_Classification ==
  last.op = "get_query_complexity"
  => /\ last.result.complexity \in {"simple", "medium", "complex"}
     /\ last.result.complexity = "simple"
          => strip(lower(last.query)) \in GreetingSet \cup AcknowledgmentSet
     /\ strip(lower(last.query)) \notin GreetingSet \cup AcknowledgmentSet
          => last.result.complexity
               = IF /\ any_in(force_tool_keywords, lower(last.query))
                    /\ any_in(AggregationTerms, lower(last.query))
                 THEN "complex" ELSE "medium"

\* "tea all" holds an aggregation term and no force-tool keyword: medium
C14_Witness ==
  /\ last.op = "get_query_complexity"
  /\ last.query = <<"t","e","a"," ","a","l","l">>
  /\ last.result.complexity = "medium"

\* the step is a call of orchestrate
OrchestrateCall ==
  /\ calls' = calls + 1
  /\ last'.orchestrated

\* the cache key of the call the step makes
KeyOfCall == cache_key_of(last'.processed, last'.strategy)

\* the step finds an entry under its key whose age has reached the TTL
ExpiredEntry ==
  /\ OrchestrateCall
  /\ KeyOfCall \in DOMAIN response_cache
  /\ now - response_cache[KeyOfCall].time >= cache_ttl

\* the step computes its response: it classifies the query and, unless the
\* reply is a canned one, calls the generation
Recomputed ==
  /\ ~last'.trace.cache_hit
  /\ ~last'.result.cached
  /\ last'.trace.complexity # "None"
  /\ last'.trace.complexity # "simple" => last'.trace.gen_called

\* an entry is served only while its age is below the TTL of 300 seconds
ServedOnlyWhileFresh ==
  /\ cache_ttl = 300
  /\ (OrchestrateCall /\ last'.trace.cache_hit)
       => /\ KeyOfCall \in DOMAIN response_cache
          /\ now - response_cache[KeyOfCall].time < 300

\* C15 as stated: an entry is returned only while its age is below the TTL;
\* a call that finds an entry whose age has reached the TTL recomputes the
\* response and replaces the entry with one stamped with the current time.
C15_Original ==
  [][/\ ServedOnlyWhileFresh
     /\ ExpiredEntry
          => /\ Recomputed
             /\ response_cache'[KeyOfCall].time = now
             /\ response_cache'[KeyOfCall].response = last'.result]_vars

\* C15, amended: the entry is replaced when the call did not set skip_cache
\* and its recomputed response is a success; otherwise the expired entry
\* stays as it was.
C15_Amended ==
  [][/\ ServedOnlyWhileFresh
     /\ ExpiredEntry
          => /\ Recomputed
             /\ IF ~last'.skip_cache /\ last'.result.success
                THEN /\ response_cache'[KeyOfCall].time = now
                     /\ response_cache'[KeyOfCall].response = last'.result
                ELSE response_cache'[KeyOfCall] = response_cache[KeyOfCall]]_vars

\* "299" was generated and stored, served from the cache before the TTL, and
\* generated again when the entry was 300 seconds old
C15_Witness ==
  /\ last.orchestrated
  /\ last.processed = q_299
  /\ last.time = 300
  /\ ~last.trace.cache_hit
  /\ last.trace.gen_called
  /\ metrics.cache_hits = 1
  /\ metrics.successful_orchestrations = 2
  /\ response_cache[cache_key_of(q_299, auto)].time = 300

\* the step handles a /chat request
ChatCall ==
  /\ calls' = calls + 1
  /\ last'.op = "orchestrate_with_followup"
  /\ request'.route = "/chat"

\* C16: a request handled with skip_cache set is not served from the cache
\* and leaves the response cache as it was, both for orchestrate called with
\* skip_cache and for a /chat request whose body sets skip_cache.
C16_SkipCacheHonoured ==
  [][/\ (OrchestrateCall /\ last'.skip_cache)
          => /\ response_cache' = response_cache
             /\ ~last'.trace.cache_hit
             /\ ~last'.result.cached
     /\ (ChatCall /\ request'.skip_cache /\ last'.orchestrated)
          => /\ response_cache' = response_cache
             /\ ~last'.trace.cache_hit
             /\ ~last'.result.cached]_vars

\* the step is a cleanup sweep
CleanupCall ==
  /\ calls' = calls + 1
  /\ last'.op = "cleanup_old_sessions"

\* C17: a cleanup sweep removes every pending follow-up older than
\* max_age_seconds, so that no lookup of the session's pending context finds
\* it any more, and leaves the records that are not older unchanged.
C17_SweepRemovesPending ==
  [][\A s \in AllSessions :
       (CleanupCall /\ s \in DOMAIN pending_context)
       => IF now - pending_context[s].timestamp > request'.max_age_seconds
          THEN /\ s \notin DOMAIN session_contexts'
               /\ s \notin DOMAIN pending_context'
          ELSE /\ s \in DOMAIN pending_context'
               /\ pending_context'[s] = pending_context[s]
               /\ s \in DOMAIN session_contexts
                    => /\ s \in DOMAIN session_contexts'
                       /\ session_contexts'[s] = session_contexts[s]]_vars

\* C18: over every operation of the orchestrator, clear_cache and
\* get_metrics included, no counter of the metrics decreases: not
\* total_queries, successful_orchestrations, failed_orchestrations,
\* direct_responses, follow_up_questions, rag_usage, mcp_usage or
\* cache_hits, and no per-strategy count.
C18_CountersNeverDecrease ==
  [][/\ \A c \in CounterNames : metrics'[c] >= metrics[c]
     /\ DOMAIN metrics'.strategy_usage = DOMAIN metrics.strategy_usage
     /\ \A k \in DOMAIN metrics.strategy_usage :
          metrics'.strategy_usage[k] >= metrics.strategy_usage[k]]_vars

\* get_metrics has written the rates into a dict whose counters had grown,
\* and the counters are as they were
C18_Witness ==
  /\ last.op = "get_metrics"
  /\ metrics.total_queries = 2
  /\ metrics.cache_hits = 1
  /\ metrics.cache_hit_rate = rate(1, 2)
  /\ metrics.strategy_usage[ <<"d","i","r","e","c","t">> ] = 1

\* C19: the message "299" on a session without a pending record draws no
\* clarifying question; it is classified medium, the strategy selected is
\* sequential, and with a tool client whose get_plan_details finds the plan
\* the one tool call is get_plan_details("299") and the bundle is the entry
\* plan_299.
C19_PriceQuery ==
  (/\ last.op = "orchestrate_with_followup"
   /\ ~last.had_context
   /\ last.query = q_299
   /\ last.strategy = auto)
  => /\ ~needs_follow_up(last.query).needs
     /\ last.result.type # "follow_up"
     /\ last.orchestrated
     /\ last.processed = q_299
     /\ last.result.complexity = "medium"
     /\ last.result.strategy = <<"s","e","q","u","e","n","t","i","a","l">>
     /\ (mcp_client /\ ~last.trace.cache_hit)
          => /\ last.trace.tool_calls
                  = << [tool |-> "get_plan_details", args |-> << <<"2","9","9">> >>] >>
             /\ last.result.mcp_used
             /\ last.result.mcp_tools_called = << <<"p","l","a","n","_","2","9","9">> >>
             /\ last.trace.pipeline = <<"s","e","q","u","e","n","t","i","a","l">>

\* "299" was processed with the entry plan_299 in its bundle
C19_Witness ==
  /\ last.op = "orchestrate_with_followup"
  /\ last.query = q_299
  /\ ~last.had_context
  /\ ~last.trace.cache_hit
  /\ last.result.complexity = "medium"
  /\ last.result.strategy = <<"s","e","q","u","e","n","t","i","a","l">>
  /\ is_member(last.result.mcp_tools_called, <<"p","l","a","n","_","2","9","9">>)

\* the unclear_budget terms
BudgetTerms ==
  << <<"c","h","e","a","p">>, <<"c","h","e","a","p","e","s","t">>, <<"a","f","f","o","r","d","a","b","l","e">>, <<"b","u","d","g","e","t"," ","p","l","a","n">>, <<"e","c","o","n","o","m","i","c","a","l">>,
     <<"l","o","w"," ","c","o","s","t">> >>

\* C20: a message on a session without a pending record whose normalized
\* text contains an unclear_budget term anywhere, and matches no pattern of
\* the three categories before unclear_budget, draws a clarifying question
\* with context_type budget_plan.
C20_BudgetTermAnywhere ==
  (/\ last.op = "orchestrate_with_followup"
   /\ ~last.had_context
   /\ any_in(BudgetTerms, strip(lower(last.query)))
   /\ \A c \in 1..3 : ~category_matches(c, strip(lower(last.query))))
  => /\ last.result.type = "follow_up"
     /\ last.result.waiting_for = "budget_plan"
     /\ last.session_id \in DOMAIN pending_context
     /\ pending_context[last.session_id].context_type = "budget_plan"

\* the categories in the order detection checks them
CategoryOrder ==
  << "vague_plan", "incomplete_comparison", "missing_location", "unclear_budget",
     "missing_user_type", "vague_problem" >>

\* the entry of the pattern table with the given category name
CategoryNamed(name) ==
  CHOOSE c \in 1..Len(ambiguous_patterns) : ambiguous_patterns[c].category = name

\* the positions in CategoryOrder of the categories with a matching pattern
MatchingInOrder(query) ==
  {i \in 1..Len(CategoryOrder) :
     category_matches(CategoryNamed(CategoryOrder[i]), strip(lower(query)))}

\* the fallback: at most 2 words, no digit, and "plan" or "recharge"
FallbackApplies(query) ==
  /\ word_count(query) <= 2
  /\ \A i \in 1..Len(query) : query[i] \notin Digits
  /\ (contains(lower(query), <<"p","l","a","n">>) \/ contains(lower(query), <<"r","e","c","h","a","r","g","e">>))

\* the context_type detection is to report, "None" for no follow-up
ExpectedContextType(query) ==
  IF MatchingInOrder(query) # {}
  THEN ambiguous_patterns[
         CategoryNamed(CategoryOrder[SetMin(MatchingInOrder(query))])].context_type
  ELSE IF FallbackApplies(query) THEN "plan_recommendation"
  ELSE "None"

\* C21: needs_follow_up reports the context_type of the first category, in
\* the fixed order, with a matching pattern; when none matches, a query of at
\* most 2 words without a digit that contains "plan" or "recharge" is
\* reported as plan_recommendation; every other query needs no follow-up.
C21_FirstCategoryThenFallback ==
  last.op = "needs_follow_up"
  => /\ last.result.waiting_for = ExpectedContextType(last.query)
     /\ (last.result.type = "follow_up")
          <=> (ExpectedContextType(last.query) # "None")
     /\ (MatchingInOrder(last.query) = {} /\ FallbackApplies(last.query))
          => last.result.response = "vague_plan_q1"

\* "cheap plan" matches unclear_budget, and the fallback is not consulted
C21_Witness ==
  /\ last.op = "needs_follow_up"
  /\ last.query = <<"c","h","e","a","p"," ","p","l","a","n">>
  /\ FallbackApplies(last.query)
  /\ last.result.type = "follow_up"
  /\ last.result.waiting_for = "budget_plan"

\* the last call was handed to orchestrate and gathered tool data afresh
Aggregated ==
  /\ last.orchestrated
  /\ ~last.trace.cache_hit
  /\ mcp_client
  /\ (last.trace.complexity # "simple" \/ last.force_tools)

\* C22: in the tool aggregation all six checks run on every invocation, in
\* order, and an exception raised by one collaborator call omits only that
\* call's entry: every check after the failing one still runs, so every
\* collaborator call the query asks for is made.
C22_EveryCheckRuns ==
  Aggregated
  => /\ Len(last.trace.tool_calls) = Len(analysis(last.processed).planned)
     /\ \A k \in 1..Len(last.trace.tool_calls) :
          last.trace.tool_calls[k].tool = analysis(last.processed).planned[k].tool

\* the numbers of 3 or 4 digits of a query that lie in [100, 5000], in order
qualifying(query) ==
  SelectSeq(findall_digits(query),
            LAMBDA p : 100 <= int_of(p) /\ int_of(p) <= 5000)

\* the last call made exactly one compare_plans call, on a and b
ComparedExactly(a, b) ==
  /\ Cardinality(compare_plans_calls) = 1
  /\ \A i \in compare_plans_calls : last.trace.tool_calls[i].args = <<a, b>>

\* what C23 expects of the compare_plans calls given the qualifying numbers
CompareOnQualifying(qual) ==
  /\ Len(qual) >= 2 => ComparedExactly(qual[1], qual[2])
  /\ (Len(qual) = 1 /\ popular_alternative(qual[1]) # << >>)
       => ComparedExactly(qual[1], popular_alternative(qual[1]))
  /\ \A i \in compare_plans_calls :
       \A j \in 1..2 :
         /\ 100 <= int_of(last.trace.tool_calls[i].args[j])
         /\ int_of(last.trace.tool_calls[i].args[j]) <= 5000

\* C23: for a query with a comparison keyword the compare collaborator is
\* called on the first two qualifying numbers (3 or 4 digits, in [100, 5000]);
\* a number outside the range is never passed to it and does not count; with
\* exactly one qualifying number among 199/299/399, that number is compared
\* against 299/399/599.
C23_CompareOnQualifying ==
  (Aggregated /\ any_in(comparison_keywords, lower(last.processed)))
  => CompareOnQualifying(qualifying(last.processed))

\* orchestrate classified a query that contains a force-tool keyword
HasForceKeyword ==
  /\ last.orchestrated
  /\ ~last.trace.cache_hit
  /\ any_in(force_tool_keywords, strip(lower(last.processed)))

\* the query was not classified simple, and was processed with retrieval and
\* tool aggregation instead of a canned reply
ProcessedWithTools ==
  /\ last.trace.complexity \in {"medium", "complex"}
  /\ last.result.complexity = last.trace.complexity
  /\ last.result.strategy # <<"d","i","r","e","c","t">>
  /\ last.result.response \notin {"GREETING", "THANKS", "GOODBYE"}
  /\ last.trace.gen_called
  /\ rag_system => last.trace.rag_called
  /\ mcp_client
       => Len(last.trace.tool_calls) = Len(analysis(last.processed).planned)

\* the trimmed lower-case query is exactly a greeting or an acknowledgment
ExactGreetingOrThanks ==
  \/ is_member(greetings, strip(lower(last.processed)))
  \/ is_member(thanks, strip(lower(last.processed)))

number_after(s, p, e) ==
  IF e = 0 \/ digit_run(s, e) < 3 THEN << >>
  ELSE SubSeq(s, e, e + (IF digit_run(s, e) >= 4 THEN 4 ELSE 3) - 1)

\* the places where budget pattern p is followed by a number
budget_places(s, p) ==
  {i \in 1..Len(s) : number_after(s, p, words_end(s, p, i)) # << >>}

\* the budget patterns that are followed by a number somewhere in s
budget_hits(s) ==
  {k \in 1..Len(budget_patterns) : budget_places(s, budget_patterns[k]) # {}}

\* the 3- or 4-digit number that follows under / budget / less than / max /
\* below in s, << >> when there is none
BudgetFollowing(s) ==
  IF budget_hits(s) = {} THEN << >>
  ELSE number_after(s, budget_patterns[SetMin(budget_hits(s))],
         words_end(s, budget_patterns[SetMin(budget_hits(s))],
                   SetMin(budget_places(s, budget_patterns[SetMin(budget_hits(s))]))))

\* the recommend_plan calls of the last call
recommend_plan_calls ==
  {i \in 1..Len(last.trace.tool_calls) :
     last.trace.tool_calls[i].tool = "recommend_plan"}

\* a user-type keyword or a recommendation keyword occurs in the query
AsksRecommendation(query_lower) ==
  \/ detected_user_type(query_lower) # << >>
  \/ any_in(recommendation_keywords, query_lower)

\* the arguments C25 expects recommend_plan to receive
ExpectedRecommendArgs(query_lower) ==
  << IF detected_user_type(query_lower) # << >>
     THEN detected_user_type(query_lower) ELSE <<"g","e","n","e","r","a","l">>,
     usage_level(query_lower),
     BudgetFollowing(query_lower) >>

\* C25: the recommend collaborator is called exactly when a user-type
\* keyword or a recommendation keyword occurs in the query, with the detected
\* user type (or "general"), the usage level, and as budget the 3- or
\* 4-digit number that follows under / budget / less than / max / below (300
\* for "best student plan under 300"), or no budget when there is none.
C25_RecommendArguments ==
  Aggregated
  => /\ (recommend_plan_calls # {}) <=> AsksRecommendation(lower(last.processed))
     /\ Cardinality(recommend_plan_calls) <= 1
     /\ \A i \in recommend_plan_calls :
          last.trace.tool_calls[i].args = ExpectedRecommendArgs(lower(last.processed))

\* every entry of the cache after the step is a successful response that is
\* not a clarifying question
EntriesAreSuccesses ==
  \A k \in DOMAIN response_cache' :
    /\ response_cache'[k].response.success
    /\ response_cache'[k].response.type # "follow_up"

\* the step returns a clarifying question
AsksQuestion ==
  /\ calls' = calls + 1
  /\ last'.result.type = "follow_up"

\* the step repeats the call before it, which failed
RepeatsFailure ==
  /\ OrchestrateCall
  /\ last.orchestrated
  /\ ~last.result.success
  /\ ~last.skip_cache
  /\ last'.processed = last.processed
  /\ last'.strategy = last.strategy

\* C26: every entry of the response cache is a successful response that is
\* not a follow-up question; a follow_up result is neither stored in nor
\* served from the cache; a failed orchestration is not stored, so that
\* repeating the query after a failure runs the pipeline again.
C26_OnlySuccessesCached ==
  [][/\ EntriesAreSuccesses
     /\ AsksQuestion
          => /\ response_cache' = response_cache
             /\ ~last'.trace.cache_read
     /\ (OrchestrateCall /\ last'.trace.cache_hit)
          => /\ last'.result.success
             /\ last'.result.type # "follow_up"
     /\ (OrchestrateCall /\ ~last'.result.success)
          => /\ response_cache' = response_cache
             /\ ~last'.trace.cache_written
     /\ RepeatsFailure => Recomputed]_vars

\* "299" failed, was asked again and generated then: the cache holds the
\* second response only
C26_Witness ==
  /\ last.orchestrated
  /\ last.processed = q_299
  /\ metrics.failed_orchestrations = 1
  /\ metrics.cache_hits = 0
  /\ last.result.success
  /\ last.trace.gen_called
  /\ DOMAIN response_cache = {cache_key_of(q_299, auto)}
  /\ response_cache[cache_key_of(q_299, auto)].response = last.result

\* the sum of the four outcome counters
outcomes(m) ==
  m.cache_hits + m.direct_responses + m.successful_orchestrations
    + m.failed_orchestrations

\* the outcome counters that are one higher after the step
incremented ==
  {c \in {"cache_hits", "direct_responses", "successful_orchestrations",
          "failed_orchestrations"} : metrics'[c] = metrics[c] + 1}

\* C27: after every completed call total_queries equals cache_hits +
\* direct_responses + successful_orchestrations + failed_orchestrations; a
\* call of orchestrate adds one to total_queries and to exactly one of the
\* four; a call that returns a follow-up question adds one to
\* follow_up_questions and to no other counter.
C27_Accounting ==
  [][/\ metrics'.total_queries = outcomes(metrics')
     /\ OrchestrateCall
          => /\ metrics'.total_queries = metrics.total_queries + 1
             /\ Cardinality(incremented) = 1
             /\ outcomes(metrics') = outcomes(metrics) + 1
             /\ metrics'.follow_up_questions = metrics.follow_up_questions
     /\ AsksQuestion
          => metrics' = [metrics EXCEPT !.follow_up_questions = @ + 1]]_vars

\* three calls of orchestrate ended as a canned reply, a cache hit and a
\* failure
C27_Witness ==
  /\ metrics.total_queries = 3
  /\ metrics.direct_responses = 1
  /\ metrics.cache_hits = 1
  /\ metrics.failed_orchestrations = 1
  /\ metrics.successful_orchestrations = 0

\* the only entry of the cache was stored by the call before the step, and
\* the step is served from the cache
ServedPreviousEntry ==
  /\ OrchestrateCall
  /\ last'.trace.cache_hit
  /\ last.orchestrated
  /\ last.trace.cache_written
  /\ Cardinality(DOMAIN response_cache) = 1

\* C28: the cache is keyed by the pair (raw query, requested strategy): a
\* request is served an entry only if the request that stored it had the
\* same query and the same strategy, for any query and strategy strings.
C28_KeyedByPair ==
  [][ServedPreviousEntry
       => /\ last'.processed = last.processed
          /\ last'.strategy = last.strategy]_vars

\* the step is a /chat request of the session the last request cleared
ChatAfterCleared ==
  /\ last.op = "clear_session_context"
  /\ last.result.response = "cleared"
  /\ request'.route = "/chat"
  /\ request'.session_id = last.session_id

\* the message of the step was processed as a new query: no stored record
\* was found for it and it was not merged
ProcessedAsNew ==
  /\ ~last'.had_context
  /\ last'.orchestrated => last'.processed = last'.query

\* C30: after any sequence of /chat, /session/<id>/clear, /clear-history/<id>
\* and /cleanup requests a session is in session_contexts exactly when the
\* FollowUpManager holds a pending record for it; and once
\* /session/<id>/clear reports "cleared", the next chat message of the
\* session is processed as a new query.
C30_ContextsAgree ==
  [][/\ DOMAIN session_contexts' = DOMAIN pending_context'
     /\ ChatAfterCleared => ProcessedAsNew]_vars

\* the thread has merged its message with the record it found
MergedWithRecord(t) ==
  /\ threads[t].pc \in {"clear", "orchestrate"}
  /\ threads[t].call.had_context
  /\ threads[t].enhanced_query
       = enhanced_query(threads[t].call.context, threads[t].call.query)

\* C29: when two calls of orchestrate_with_followup for one session
\* interleave while the session has one pending follow-up, the record is
\* consumed by exactly one of them: in no interleaving are both messages
\* merged with the same original query.
C29_ConsumedByOne ==
  metrics.follow_up_questions = 1
  => \A t \in Threads, u \in Threads :
       (/\ MergedWithRecord(t)
        /\ MergedWithRecord(u)
        /\ threads[t].call.session_id = threads[u].call.session_id
        /\ threads[t].call.context = threads[u].call.context)
       => t = u

====
